---------------------------- MODULE Spec2Model ----------------------------
(***************************************************************************)
(* Motion planner of the Tuna firmware (src/Tuna/planner.h and the Planner *)
(* part of src/Tuna/Marlin_main.cpp): the ring of movement blocks shared   *)
(* by the foreground producer (_buffer_line, recalculate) and the stepper  *)
(* interrupt (get_current_block, discard_current_block), the block         *)
(* builder, the look-ahead passes and the trapezoid generator.             *)
(*                                                                         *)
(* Arithmetic.  The firmware computes speeds and lengths in single         *)
(* precision floats.  Here every float is a fixed-point integer:           *)
(*   lengths in 1/MM mm (MM = 400, one Z step),                            *)
(*   speeds in 1/SU mm/s (SU = 100),                                       *)
(*   accelerations in mm/s^2,                                              *)
(*   dimensionless factors in 1/FACTOR_ONE.                                *)
(* Divisions round toward zero and SQRT is the integer square root, so a   *)
(* quantity of the model is the real-number value of the firmware's        *)
(* expression rounded down to the unit.  Step counts, step rates and the   *)
(* trapezoid are integers in the firmware as well and are modelled exactly *)
(* (CEIL and FLOOR of the exact quotient).                                 *)
(*                                                                         *)
(* Build configuration: cartesian machine, one extruder, no LIN_ADVANCE,   *)
(* no SLOWDOWN, no XY_FREQUENCY_LIMIT, no leveling, flow 100 % and         *)
(* volumetric multiplier 1.                                                *)
(***************************************************************************)
EXTENDS Integers, Sequences, FiniteSets, TLC

\* ------------------------------------------------------------------------
\* Axes and machine settings (planner.h:149-171).  The values are the
\* settings of the end-to-end scenarios: steps/mm {80,80,400,100},
\* max feedrate {300,300,5,25}, max acceleration {1500,1500,100,10000},
\* max jerk {10,10,0.4,5}, acceleration 1000, min feedrate 0.05.
\* ------------------------------------------------------------------------
X_AXIS == 1
Y_AXIS == 2
Z_AXIS == 3
E_AXIS == 4
XYZE == 1..4

axis_steps_per_mm == <<80, 80, 400, 100>>

\* length units per mm: the finest step of the machine
MM == axis_steps_per_mm[Z_AXIS]

\* speed units per mm/s
SU == 10 * 10

\* the value 1.0 of a dimensionless float factor
FACTOR_ONE == 100 * 100

\* steps_to_mm[i] = 1 / axis_steps_per_mm[i], in length units per step
steps_to_mm == [i \in XYZE |-> MM \div axis_steps_per_mm[i]]

max_feedrate_mm_s == <<300 * SU, 300 * SU, 5 * SU, 25 * SU>>

max_acceleration_mm_per_s2 == <<1500, 1500, 100, 10000>>

max_acceleration_steps_per_s2 ==
  [i \in XYZE |-> max_acceleration_mm_per_s2[i] * axis_steps_per_mm[i]]

max_jerk == <<10 * SU, 10 * SU, (4 * SU) \div 10, 5 * SU>>

acceleration == 1000

retract_acceleration == 1000

travel_acceleration == 1000

min_feedrate_mm_s == (5 * SU) \div 100

min_travel_feedrate_mm_s == 0 * SU

MIN_STEPS_PER_SEGMENT == 6

MINIMAL_STEP_RATE == 120

UINT24 == 16777216

\* ------------------------------------------------------------------------
\* Arithmetic helpers
\* ------------------------------------------------------------------------
Abs(x) == IF x < 0 THEN -x ELSE x

Min(a, b) == IF a < b THEN a ELSE b

Max(a, b) == IF a > b THEN a ELSE b

sq(x) == x * x

\* float -> integer conversion of n/d (d > 0): truncation toward zero
Trunc(n, d) == IF n >= 0 THEN n \div d ELSE -((-n) \div d)

\* CEIL(n/d) and FLOOR(n/d) for d # 0
FLOORDIV(n, d) == IF d > 0 THEN n \div d ELSE (-n) \div (-d)

CEILDIV(n, d) == -FLOORDIV(-n, d)

RECURSIVE SqrtSearch(_, _, _)
SqrtSearch(n, lo, hi) ==
  IF lo >= hi THEN lo
  ELSE LET mid == (lo + hi + 1) \div 2
       IN  IF mid * mid <= n THEN SqrtSearch(n, mid, hi)
           ELSE SqrtSearch(n, lo, mid - 1)

\* SQRT(n), rounded down
SQRT(n) == SqrtSearch(n, 0, 46340)

\* a store into a uint24 field
ToU24(x) == x % UINT24

\* ------------------------------------------------------------------------
\* Block flags (planner.h:42-67) and the ring index arithmetic
\* ------------------------------------------------------------------------
RECALCULATE == "RECALCULATE"
NOMINAL_LENGTH == "NOMINAL_LENGTH"
START_FROM_FULL_HALT == "START_FROM_FULL_HALT"
BUSY == "BUSY"

\* the ring sizes of the model: BLOCK_BUFFER_SIZE is a compile-time power of
\* two; a ring of 4 fills after three moves, a ring of 8 holds the four
\* blocks the reverse pass needs
RingSizes == {4, 8}

\* BLOCK_MOD(n) = n & (BLOCK_BUFFER_SIZE - 1), the size being a power of two
BLOCK_MOD(n, size) == n % size

next_block_index(block_index, size) == BLOCK_MOD(block_index + 1, size)

prev_block_index(block_index, size) == BLOCK_MOD(block_index - 1 + size, size)

\* ------------------------------------------------------------------------
\* planner.h:447-472.  A float result is the pair <<numerator, denominator>>
\* of the exact quotient; CEIL / FLOOR round it as the caller does.
\* ------------------------------------------------------------------------
estimate_acceleration_distance(initial_rate, target_rate, accel) ==
  IF accel = 0 THEN <<0, 1>>
  ELSE <<sq(target_rate) - sq(initial_rate), accel * 2>>

intersection_distance(initial_rate, final_rate, accel, distance) ==
  IF accel = 0 THEN <<0, 1>>
  ELSE <<accel * 2 * distance - sq(initial_rate) + sq(final_rate), accel * 4>>

CEIL(q) == CEILDIV(q[1], q[2])

FLOOR(q) == FLOORDIV(q[1], q[2])

\* max_allowable_speed(accel, target_velocity, distance) =
\* SQRT(sq(target_velocity) - 2 * accel * distance): accel in mm/s^2,
\* distance in length units, speeds in speed units
max_allowable_speed(accel, target_velocity, distance) ==
  SQRT(sq(target_velocity) - 2 * accel * distance * (sq(SU) \div MM))

\* accel * 16777216.0 / (F_CPU * 0.125) with F_CPU = 16 MHz, i.e.
\* accel * 131072 / 15625, converted to int24
AccelerationRate(accel) ==
  ToU24((accel \div 15625) * 131072 + ((accel % 15625) * 131072) \div 15625)

\* a rate that is not raised to MINIMAL_STEP_RATE
TrapezoidInitialRate_unclamped(entry_speed) == CEILDIV(entry_speed, SU)

\* ------------------------------------------------------------------------
\* Planner::calculate_trapezoid_for_block, the computation before the
\* critical section (Marlin_main.cpp:4083-4105) and the values the critical
\* section stores (4112-4116).  entry_speed and next_entry_speed are in
\* speed units; the result is the five fields as stored in the block.
\* ------------------------------------------------------------------------
TrapezoidInitialRate(entry_speed) ==
  Max(CEILDIV(entry_speed, SU), MINIMAL_STEP_RATE)

calculate_trapezoid_for_block(block, entry_speed, next_entry_speed) ==
  LET initial_rate == TrapezoidInitialRate(entry_speed)
      final_rate == TrapezoidInitialRate(next_entry_speed)
      accel == block.acceleration_steps_per_s2
      accelerate_steps0 ==
        CEIL(estimate_acceleration_distance(initial_rate, block.nominal_rate, accel))
      decelerate_steps ==
        FLOOR(estimate_acceleration_distance(block.nominal_rate, final_rate, -accel))
      plateau_steps0 == block.step_event_count - accelerate_steps0 - decelerate_steps
      accelerate_steps ==
        IF plateau_steps0 < 0
        THEN Min(Max(CEIL(intersection_distance(initial_rate, final_rate, accel,
                                                block.step_event_count)), 0),
                 block.step_event_count)
        ELSE accelerate_steps0
      plateau_steps == IF plateau_steps0 < 0 THEN 0 ELSE plateau_steps0
  IN  [accelerate_until |-> ToU24(accelerate_steps),
       decelerate_after |-> ToU24(accelerate_steps + plateau_steps),
       initial_rate |-> ToU24(initial_rate),
       final_rate |-> ToU24(final_rate),
       acceleration_rate |-> AccelerationRate(accel)]


\* ------------------------------------------------------------------------
\* Planner::_buffer_line, the computation of the new block
\* (Marlin_main.cpp:4693-5338).  A move is [a, b, c, e: target in length
\* units, fr_mm_s: feedrate in speed units, cold: the value of
\* Temperature::is_coldextrude() during the call].
\* ------------------------------------------------------------------------

\* round<uint24>(a * axis_steps_per_mm[i]) for a >= 0        (4693-4698)
TargetSteps(mv) ==
  [i \in XYZE |->
     LET mm == <<mv.a, mv.b, mv.c, mv.e>>[i]
     IN  (2 * mm * axis_steps_per_mm[i] + MM) \div (2 * MM)]

\* de after PREVENT_COLD_EXTRUSION                            (4747-4778)
ExtruderDelta(position, mv) ==
  LET de == TargetSteps(mv)[E_AXIS] - position[E_AXIS]
  IN  IF de # 0 /\ mv.cold THEN 0 ELSE de

\* _buffer_line leaving position[E_AXIS] alone when it cancels an extrusion
PositionAfterColdCheck_none(position, mv) == position

\* _buffer_line copying the whole target into position[] before the step
\* counts are taken
PositionAfterColdCheck_all(position, mv) == TargetSteps(mv)

\* position[E_AXIS] as _buffer_line leaves it when the move is dropped or
\* before the block is published                              (4754-4757)
PositionAfterColdCheck(position, mv) ==
  IF TargetSteps(mv)[E_AXIS] - position[E_AXIS] # 0 /\ mv.cold
  THEN [position EXCEPT ![E_AXIS] = TargetSteps(mv)[E_AXIS]]
  ELSE position

\* da, db, dc, de                                             (4712-4747)
StepDeltas(position, mv) ==
  [i \in XYZE |->
     IF i = E_AXIS THEN ExtruderDelta(position, mv)
     ELSE TargetSteps(mv)[i] - position[i]]

\* a direction mask that marks no axis as moving backwards
DirectionBits_forward(d) == {}

\* the direction bit-mask dm                                  (4780-4805)
DirectionBits(d) == {i \in XYZE : d[i] < 0}

\* block->steps[] and block->step_event_count                 (4842-4848)
BlockSteps(d) == [i \in XYZE |-> ToU24(Abs(d[i]))]

StepEventCount(steps) ==
  Max(Max(steps[X_AXIS], steps[Y_AXIS]), Max(steps[Z_AXIS], steps[E_AXIS]))

\* the feedrate floor                                         (4998-5005)
ClampFeedrate(fr_mm_s, esteps) ==
  IF esteps # 0 /\ fr_mm_s < min_feedrate_mm_s THEN min_feedrate_mm_s
  ELSE IF esteps = 0 /\ fr_mm_s < min_travel_feedrate_mm_s
       THEN min_travel_feedrate_mm_s
       ELSE fr_mm_s

\* delta_mm[] in length units                                 (5037-5042)
DeltaMM(d) == [i \in XYZE |-> d[i] * steps_to_mm[i]]

\* block->millimeters                                         (5044-5059)
Millimeters(steps, delta_mm) ==
  IF /\ steps[X_AXIS] < MIN_STEPS_PER_SEGMENT
     /\ steps[Y_AXIS] < MIN_STEPS_PER_SEGMENT
     /\ steps[Z_AXIS] < MIN_STEPS_PER_SEGMENT
  THEN Abs(delta_mm[E_AXIS])
  ELSE SQRT(sq(delta_mm[X_AXIS]) + sq(delta_mm[Y_AXIS]) + sq(delta_mm[Z_AXIS]))

\* current_speed[i] = delta_mm[i] * inverse_mm_s, with
\* inverse_mm_s = fr_mm_s / millimeters                       (5133-5135)
AxisSpeeds(delta_mm, fr_mm_s, millimeters) ==
  [i \in XYZE |-> Trunc(delta_mm[i] * fr_mm_s, millimeters)]

\* speed_factor as the fraction <<n, d>>: the smallest
\* max_feedrate_mm_s[i] / cs over the axes with cs > max_feedrate (5133-5140)
RECURSIVE SpeedFactorFrom(_, _, _)
SpeedFactorFrom(i, speed, f) ==
  IF i > E_AXIS THEN f
  ELSE LET cs == Abs(speed[i])
           g == IF cs > max_feedrate_mm_s[i] /\ max_feedrate_mm_s[i] * f[2] < f[1] * cs
                THEN <<max_feedrate_mm_s[i], cs>>
                ELSE f
       IN  SpeedFactorFrom(i + 1, speed, g)

\* a speed_factor that is never lowered
SpeedFactor_none(speed) == <<1, 1>>

SpeedFactor(speed) == SpeedFactorFrom(X_AXIS, speed, <<1, 1>>)

\* one LIMIT_ACCEL_LONG / LIMIT_ACCEL_FLOAT step              (5196-5208)
LimitAccel(accel, steps, step_event_count, axis) ==
  IF steps[axis] # 0 /\ max_acceleration_steps_per_s2[axis] < accel
  THEN LET comp == max_acceleration_steps_per_s2[axis] * step_event_count
       IN  IF accel * steps[axis] > comp THEN comp \div steps[axis] ELSE accel
  ELSE accel

\* accel in steps/s^2                                         (5188-5232)
BlockAccel(steps, step_event_count, millimeters) ==
  IF steps[X_AXIS] = 0 /\ steps[Y_AXIS] = 0 /\ steps[Z_AXIS] = 0
  THEN CEILDIV(retract_acceleration * step_event_count * MM, millimeters)
  ELSE LET a0 == CEILDIV((IF steps[E_AXIS] # 0 THEN acceleration
                          ELSE travel_acceleration) * step_event_count * MM,
                         millimeters)
           a1 == LimitAccel(a0, steps, step_event_count, X_AXIS)
           a2 == LimitAccel(a1, steps, step_event_count, Y_AXIS)
           a3 == LimitAccel(a2, steps, step_event_count, Z_AXIS)
       IN  LimitAccel(a3, steps, step_event_count, E_AXIS)

\* safe_speed                                                 (5249-5263)
RECURSIVE SafeSpeedFrom(_, _, _, _, _)
SafeSpeedFrom(i, speed, nominal_speed, safe_speed, limited) ==
  IF i > E_AXIS THEN safe_speed
  ELSE LET jerk == Abs(speed[i])
           maxj == max_jerk[i]
       IN  IF jerk > maxj
           THEN IF limited
                THEN LET mjerk == maxj * nominal_speed
                     IN  SafeSpeedFrom(i + 1, speed, nominal_speed,
                                       IF jerk * safe_speed > mjerk
                                       THEN mjerk \div jerk ELSE safe_speed,
                                       TRUE)
                ELSE SafeSpeedFrom(i + 1, speed, nominal_speed, maxj, TRUE)
           ELSE SafeSpeedFrom(i + 1, speed, nominal_speed, safe_speed, limited)

SafeSpeed(speed, nominal_speed) ==
  SafeSpeedFrom(X_AXIS, speed, nominal_speed, nominal_speed, FALSE)

\* a jerk that is never over the limit, so that no axis is limited
JunctionJerk_none(v_exit, v_entry) == 0

\* the jerk of one axis between v_exit and v_entry            (5288-5293)
JunctionJerk(v_exit, v_entry) ==
  IF v_exit > v_entry
  THEN IF v_entry > 0 \/ v_exit < 0 THEN v_exit - v_entry ELSE Max(v_exit, -v_entry)
  ELSE IF v_entry < 0 \/ v_exit > 0 THEN v_entry - v_exit ELSE Max(-v_exit, v_entry)

\* v_exit and v_entry of one axis as the loop sees them       (5281-5286)
JunctionExit(prev_speed, prev_larger, ssf, v_factor, limited, i) ==
  LET v0 == IF prev_larger THEN Trunc(prev_speed[i] * ssf[1], ssf[2]) ELSE prev_speed[i]
  IN  IF limited THEN Trunc(v0 * v_factor, FACTOR_ONE) ELSE v0

JunctionEntry(speed, v_factor, limited, i) ==
  IF limited THEN Trunc(speed[i] * v_factor, FACTOR_ONE) ELSE speed[i]

\* v_factor after the loop over the axes; FACTOR_ONE + 1 stands for
\* "limited = 0" (no axis was limited)                        (5276-5299)
RECURSIVE JunctionFactorFrom(_, _, _, _, _, _, _)
JunctionFactorFrom(i, prev_speed, speed, prev_larger, ssf, v_factor, limited) ==
  IF i > E_AXIS THEN IF limited THEN v_factor ELSE FACTOR_ONE + 1
  ELSE LET jerk == JunctionJerk(JunctionExit(prev_speed, prev_larger, ssf, v_factor, limited, i),
                                JunctionEntry(speed, v_factor, limited, i))
       IN  IF jerk > max_jerk[i]
           THEN JunctionFactorFrom(i + 1, prev_speed, speed, prev_larger, ssf,
                                   (v_factor * max_jerk[i]) \div jerk, TRUE)
           ELSE JunctionFactorFrom(i + 1, prev_speed, speed, prev_larger, ssf,
                                   v_factor, limited)

\* vmax_junction of the coasting branch, before the full-halt test (5271-5300)
JunctionSpeed(prev_speed, prev_nominal, speed, nominal_speed) ==
  LET prev_larger == prev_nominal > nominal_speed
      ssf == IF prev_larger THEN <<nominal_speed, prev_nominal>>
             ELSE <<prev_nominal, nominal_speed>>
      vmax == IF prev_larger THEN nominal_speed ELSE prev_nominal
      vf == JunctionFactorFrom(X_AXIS, prev_speed, speed, prev_larger, ssf,
                               FACTOR_ONE, FALSE)
  IN  IF vf > FACTOR_ONE THEN vmax ELSE (vmax * vf) \div FACTOR_ONE


\* a slot of block_buffer[] in static storage before its first use
ZeroBlock ==
  [flag |-> {}, direction_bits |-> {}, steps |-> [i \in XYZE |-> 0],
   step_event_count |-> 0, millimeters |-> 0, nominal_speed |-> 0,
   nominal_rate |-> 0, acceleration_steps_per_s2 |-> 0, acceleration |-> 0,
   max_entry_speed |-> 0, entry_speed |-> 0, accelerate_until |-> 0,
   decelerate_after |-> 0, initial_rate |-> 0, final_rate |-> 0,
   acceleration_rate |-> 0]

\* the slot after the writes of 4821-4848: the flags are cleared and the
\* direction bits and the step counts are those of the new move; this is
\* what a dropped move leaves in the slot
SlotAfterSteps(old, position, mv) ==
  LET d == StepDeltas(position, mv)
  IN  [old EXCEPT !.flag = {},
                  !.direction_bits = DirectionBits(d),
                  !.steps = BlockSteps(d),
                  !.step_event_count = StepEventCount(BlockSteps(d))]

\* TRUE when _buffer_line bails out at 4851
IsDropped(position, mv) ==
  StepEventCount(BlockSteps(StepDeltas(position, mv))) < MIN_STEPS_PER_SEGMENT

\* the junction part of _buffer_line (5265-5314): <<vmax_junction, full_halt>>
Junction(prev_speed, prev_nominal, prev_safe, moves_queued, speed, nominal_speed, safe_speed) ==
  IF moves_queued > 1 /\ prev_nominal > 0
  THEN LET vmax == JunctionSpeed(prev_speed, prev_nominal, speed, nominal_speed)
           threshold == (vmax * 99) \div 100
       IN  IF prev_safe > threshold /\ safe_speed > threshold
           THEN <<safe_speed, TRUE>>
           ELSE <<vmax, FALSE>>
  ELSE <<safe_speed, TRUE>>

\* an entry speed that ignores the state of the stepper interrupt
InitialEntrySpeed_junction(isr_enabled, vmax_junction, v_allowable) == Min(vmax_junction, v_allowable)

\* block->entry_speed = TEST(TIMSK1, OCIE1A) ? 0.0f : min(vmax_junction, v_allowable)
InitialEntrySpeed(isr_enabled, vmax_junction, v_allowable) ==
  IF isr_enabled THEN 0 ELSE Min(vmax_junction, v_allowable)

\* the flags of the new block (5307, 5312, 5333)
InitialFlags(full_halt, nominal_speed, v_allowable) ==
  (IF full_halt THEN {START_FROM_FULL_HALT} ELSE {})
    \cup (IF nominal_speed <= v_allowable THEN {RECALCULATE, NOMINAL_LENGTH}
          ELSE {RECALCULATE})

\* The block of a move that is not dropped, with the junction state the
\* call leaves behind: [block, speed, nominal_speed, safe_speed].  The
\* trapezoid fields keep what the slot held (old).
BuildBlock(old, position, prev_speed, prev_nominal, prev_safe, moves_queued, isr_enabled, mv) ==
  LET d == StepDeltas(position, mv)
      steps == BlockSteps(d)
      sec == StepEventCount(steps)
      fr == ClampFeedrate(mv.fr_mm_s, steps[E_AXIS])
      delta_mm == DeltaMM(d)
      mm == Millimeters(steps, delta_mm)
      speed0 == AxisSpeeds(delta_mm, fr, mm)
      sf == SpeedFactor(speed0)
      limited == sf[1] < sf[2]
      speed == IF limited THEN [i \in XYZE |-> Trunc(speed0[i] * sf[1], sf[2])]
               ELSE speed0
      nominal_speed0 == (mm * fr) \div mm
      nominal_speed == IF limited THEN (nominal_speed0 * sf[1]) \div sf[2]
                       ELSE nominal_speed0
      nominal_rate0 == ToU24(CEILDIV(sec * fr * (MM \div SU), mm))
      nominal_rate == IF limited THEN ToU24((nominal_rate0 * sf[1]) \div sf[2])
                      ELSE nominal_rate0
      accel == BlockAccel(steps, sec, mm)
      accel_mm == (accel * mm) \div (sec * MM)
      safe_speed == SafeSpeed(speed, nominal_speed)
      j == Junction(prev_speed, prev_nominal, prev_safe, moves_queued, speed,
                    nominal_speed, safe_speed)
      v_allowable == max_allowable_speed(-accel_mm, 0, mm)
  IN  [block |->
         [old EXCEPT !.flag = InitialFlags(j[2], nominal_speed, v_allowable),
                     !.direction_bits = DirectionBits(d),
                     !.steps = steps,
                     !.step_event_count = sec,
                     !.millimeters = mm,
                     !.nominal_speed = nominal_speed,
                     !.nominal_rate = nominal_rate,
                     !.acceleration_steps_per_s2 = ToU24(accel),
                     !.acceleration = accel_mm,
                     !.max_entry_speed = j[1],
                     !.entry_speed = InitialEntrySpeed(isr_enabled, j[1], v_allowable)],
       speed |-> speed,
       nominal_speed |-> nominal_speed,
       safe_speed |-> safe_speed]


\* ------------------------------------------------------------------------
\* Bounds and inputs of the model
\* ------------------------------------------------------------------------

\* blocks published in one behaviour
MaxMoves == 4

Move(a, b, c, e, fr_mm_s, cold) ==
  [a |-> a, b |-> b, c |-> c, e |-> e, fr_mm_s |-> fr_mm_s, cold |-> cold]

\* The moves a behaviour draws from (targets are absolute, so a move to
\* the position the planner is at already has no steps and is dropped):
\*   X = 1 mm at 60 mm/s    a short fast move that cannot reach nominal speed
\*   X = 2 mm at 60 mm/s    the collinear continuation
\*   X = 12 mm at 60 mm/s   a long move of nominal length
\*   X = 0 at 1 mm/s        a slow move, nominal_rate below MINIMAL_STEP_RATE
\*   X = 0.1 mm, E = 1 mm at 1 mm/s   an extrusion faster than the XYZ path
Moves ==
  { Move(1 * MM, 0, 0, 0, 60 * SU, FALSE),
    Move(2 * MM, 0, 0, 0, 60 * SU, FALSE),
    Move(12 * MM, 0, 0, 0, 60 * SU, FALSE),
    Move(0, 0, 0, 0, 1 * SU, FALSE),
    Move(MM \div 10, 0, 0, 1 * MM, 1 * SU, FALSE) }

NoMove == Move(0, 0, 0, 0, 0, FALSE)

\* "no block": nullptr
NONE == -1

\* The loop variables of reverse_pass (endnr, blocknr), forward_pass (b,
\* block[3]) and recalculate_trapezoids (block_index, next), and the flag
\* byte a read-modify-write (SBI / CBI) has loaded and is about to store:
\* store = the slot, flag = the value, last = the write ends its loop.
NoLocals == [endnr |-> NONE, blocknr |-> NONE, b |-> NONE,
             block |-> <<NONE, NONE, NONE>>, block_index |-> NONE,
             next |-> NONE, store |-> NONE, flag |-> {}, last |-> FALSE]

\* ------------------------------------------------------------------------
\* State
\* ------------------------------------------------------------------------
VARIABLES
  BLOCK_BUFFER_SIZE,       \* the compile-time ring size of this build
  block_buffer,            \* Planner::block_buffer[]
  block_buffer_head,       \* index of the next block to be pushed
  block_buffer_tail,       \* index of the block the stepper runs or will run
  position,                \* Planner::position[], in steps
  previous_speed,          \* Planner::previous_speed[]
  previous_nominal_speed,  \* Planner::previous_nominal_speed
  previous_safe_speed,     \* the static previous_safe_speed of _buffer_line
  stepper_isr_enabled,     \* TEST(TIMSK1, OCIE1A)
  current_block,           \* the block the stepper interrupt holds, or NONE
  pc,                      \* where the foreground is in _buffer_line
  mv,                      \* the arguments of the _buffer_line call in progress
  loc,                     \* the loop variables of recalculate()
  waited,                  \* the call in progress has called idle() on a full ring
  published,               \* number of blocks published (head advances)
  retired,                 \* number of blocks retired (tail advances)
  built,                   \* slots whose block fields were written for their move
  trap_written,            \* slots whose trapezoid was written since they were built
  pass_written,            \* slots whose trapezoid was written in this recalculate()
  busy_write               \* the last kind of producer write to a BUSY block of the ring

\* The heater control loop (thermal.cpp) and the machine-wide run state
VARIABLES
  HEATER_0_RAW_LO_LT_HI,   \* constexpr of the build: raw ADC values rise with temperature
  target_temperature,      \* Temperature::target_temperature, in degrees C
  target_temperature_bed,  \* Temperature::target_temperature_bed
  current_temperature,     \* Temperature::current_temperature
  current_temperature_bed, \* Temperature::current_temperature_bed
  soft_pwm_amount,         \* Temperature::soft_pwm_amount, 0 .. 255
  is_bed_heating,          \* Temperature::is_bed_heating
  heater_0,                \* the level of HEATER_0_PIN
  heater_bed,              \* the level of HEATER_BED_PIN
  raw_adc_hotend,          \* interrupt::raw_adc_hotend
  raw_adc_bed,             \* interrupt::raw_adc_bed
  ready_,                  \* interrupt::ready_
  temperature_raw,         \* the pair updateTemperaturesFromRawValues read last
  adc_sensor_state,        \* the static adc_sensor_state of Temperature::isr
  local_raw_adc_hotend,    \* the static local_raw_adc_hotend of Temperature::isr
  watch_target_temp,       \* Temperature::watch_target_temp
  watch_heater_next_ms,    \* Temperature::watch_heater_next_ms
  watch_target_bed_temp,   \* Temperature::watch_target_bed_temp
  watch_bed_next_ms,       \* Temperature::watch_bed_next_ms
  ms,                      \* millis(), in units of 1000 ms
  Running,                 \* the global Running flag
  killed,                  \* the static killed of _temp_error
  interrupts,              \* the global interrupt enable bit (sei / cli)
  wdt,                     \* watchdog timer: time since the last wdr()
  board_reset,             \* the watchdog has expired and reset the board
  adc_last                 \* the pair the last set_adc call wrote, or <<NONE, NONE>>

\* The serial command parser (Marlin_main.cpp) and the thermal runaway
\* state machine of the hot end (thermal.cpp)
VARIABLES
  gcode_LastN,             \* the last accepted line number
  command_queue,           \* the queued commands, oldest first
  serial_in,               \* the line get_serial_commands handled last, or NoLine
  serial_out,              \* what the handling of that line wrote to the host
  thermal_runaway_state_machine,   \* Temperature::thermal_runaway_state_machine
  thermal_runaway_timer,           \* Temperature::thermal_runaway_timer
  tr_target_temperature,           \* tr_target_temperature<Manager::Hotend>
  tr_call,                 \* what the last thermal_runaway_protection call was entered with, or NoCheck
  set_call,                \* the last set_position_mm call since the last block, or NoCall
  pwm_counter,             \* the static uint8 pwm_counter of Temperature::isr
  pwm_n,                   \* PWM updates made since the duties last changed, up to PwmWindow
  pwm_highs,               \* how many of them drove the hot end's pin high
  pwm_bed_highs,           \* how many of them drove the bed's pin high
  set_steps,               \* position[] as the last set_position_mm left it
  published_steps,         \* signed steps of the blocks published since, per axis
  skipped                  \* parity of the manage_heater calls that found no fresh pair

serial_vars == <<gcode_LastN, command_queue, serial_in, serial_out>>

runaway_vars == <<thermal_runaway_state_machine, thermal_runaway_timer, tr_target_temperature,
                  tr_call>>

pwm_vars == <<pwm_counter, pwm_n, pwm_highs, pwm_bed_highs>>

ledger_vars == <<set_steps, published_steps>>

host_vars == <<serial_vars, runaway_vars, set_call, pwm_vars, ledger_vars, skipped>>

thermal_vars == <<HEATER_0_RAW_LO_LT_HI, target_temperature, target_temperature_bed,
                  current_temperature, current_temperature_bed, soft_pwm_amount,
                  is_bed_heating, heater_0, heater_bed, raw_adc_hotend, raw_adc_bed,
                  ready_, temperature_raw, adc_sensor_state, local_raw_adc_hotend,
                  watch_target_temp, watch_heater_next_ms, watch_target_bed_temp,
                  watch_bed_next_ms, ms, Running, killed, interrupts, wdt,
                  board_reset, adc_last>>

motion_vars == <<BLOCK_BUFFER_SIZE, block_buffer, block_buffer_head, block_buffer_tail,
                 position, previous_speed, previous_nominal_speed, previous_safe_speed,
                 stepper_isr_enabled, current_block, pc, mv, loc, waited, published,
                 retired, built, trap_written, pass_written, busy_write>>

vars == <<motion_vars, thermal_vars, host_vars>>

planner_vars == <<position, previous_speed, previous_nominal_speed, previous_safe_speed>>

ring_vars == <<block_buffer_head, block_buffer_tail>>

ghost_vars == <<published, retired, built, trap_written, pass_written, busy_write>>

Slots == 0 .. BLOCK_BUFFER_SIZE - 1

\* planner.h:258, 260, 386
movesplanned ==
  BLOCK_MOD(block_buffer_head - block_buffer_tail + BLOCK_BUFFER_SIZE, BLOCK_BUFFER_SIZE)

is_full == block_buffer_tail = BLOCK_MOD(block_buffer_head + 1, BLOCK_BUFFER_SIZE)

blocks_queued == block_buffer_head # block_buffer_tail

\* the indices of the ring window [tail, head)
InRing(i) ==
  BLOCK_MOD(i - block_buffer_tail + BLOCK_BUFFER_SIZE, BLOCK_BUFFER_SIZE) < movesplanned

TEST(i, bit) == bit \in block_buffer[i].flag

\* The static initialisers of thermal.cpp (46-65, 116-118), Running
\* (Marlin_main.cpp:267) and the state setup() leaves: interrupts enabled,
\* watchdog started (Marlin_main.cpp:3843).
ThermalInit(raw_lo_lt_hi) ==
  /\ HEATER_0_RAW_LO_LT_HI = raw_lo_lt_hi
  /\ target_temperature = 0
  /\ target_temperature_bed = 0
  /\ current_temperature = 0
  /\ current_temperature_bed = 0
  /\ soft_pwm_amount = 0
  /\ is_bed_heating = FALSE
  /\ heater_0 = FALSE
  /\ heater_bed = FALSE
  /\ raw_adc_hotend = 0
  /\ raw_adc_bed = 0
  /\ ready_ = FALSE
  /\ temperature_raw = <<0, 0>>
  /\ adc_sensor_state = "initialize_hotend"
  /\ local_raw_adc_hotend = 0
  /\ watch_target_temp = 0
  /\ watch_heater_next_ms = 0
  /\ watch_target_bed_temp = 0
  /\ watch_bed_next_ms = 0
  /\ ms = 0
  /\ Running = TRUE
  /\ killed = FALSE
  /\ interrupts = TRUE
  /\ wdt = 0
  /\ board_reset = FALSE
  /\ adc_last = <<NONE, NONE>>

\* Planner::init() and the static initialisers (Marlin_main.cpp:3979-4035,
\* 4064-4075).  TIMSK1 is set up by the stepper driver, which may or may not
\* have enabled its interrupt before the first move.
PlannerInit ==
  /\ BLOCK_BUFFER_SIZE \in RingSizes
  /\ block_buffer = [i \in 0 .. BLOCK_BUFFER_SIZE - 1 |-> ZeroBlock]
  /\ block_buffer_head = 0
  /\ block_buffer_tail = 0
  /\ position = [i \in XYZE |-> 0]
  /\ previous_speed = [i \in XYZE |-> 0]
  /\ previous_nominal_speed = 0
  /\ previous_safe_speed = 0
  /\ stepper_isr_enabled \in BOOLEAN
  /\ current_block = NONE
  /\ pc = "idle"
  /\ mv = NoMove
  /\ loc = NoLocals
  /\ waited = FALSE
  /\ published = 0
  /\ retired = 0
  /\ built = {}
  /\ trap_written = {}
  /\ pass_written = {}
  /\ busy_write = "none"

\* no set_position_mm call since the last block
NoCall == [kind |-> "none", axis |-> NONE, p |-> <<>>]

\* a line that is no line: nothing handled yet
NoLine == [lead |-> NONE, m110 |-> FALSE, param |-> NONE, star |-> "none", none |-> TRUE]

\* gcode_LastN, the command queue (Marlin_main.cpp:306, 317) and the static
\* initialisers of the runaway state machine (thermal.cpp:487-493)
\* no thermal_runaway_protection call yet
NoCheck == [made |-> FALSE]

HostInit ==
  /\ gcode_LastN = 0
  /\ command_queue = <<>>
  /\ serial_in = NoLine
  /\ serial_out = [error |-> FALSE, resend |-> NONE]
  /\ thermal_runaway_state_machine = "TRInactive"
  /\ thermal_runaway_timer = 0
  /\ tr_target_temperature = 0
  /\ tr_call = NoCheck
  /\ set_call = NoCall
  /\ pwm_counter = 0
  /\ pwm_n = 0
  /\ pwm_highs = 0
  /\ pwm_bed_highs = 0
  /\ set_steps = <<0, 0, 0, 0>>
  /\ published_steps = <<0, 0, 0, 0>>
  /\ skipped = FALSE

\* The motion specification leaves the heater loop at rest; no planner
\* action reads the thermistor orientation.
Init == PlannerInit /\ ThermalInit(TRUE) /\ HostInit


\* ------------------------------------------------------------------------
\* The consumer side (planner.h:386-426)
\* ------------------------------------------------------------------------

\* get_current_block looking at the tail block only
get_current_block_tail_only ==
  LET claim == [block |-> block_buffer_tail,
                buffer |-> [block_buffer EXCEPT ![block_buffer_tail].flag = @ \cup {BUSY}]]
      null == [block |-> NONE, buffer |-> block_buffer]
  IN  IF blocks_queued /\ ~TEST(block_buffer_tail, RECALCULATE) THEN claim ELSE null

\* get_current_block handing out the tail block whatever its flags
get_current_block_any ==
  LET claim == [block |-> block_buffer_tail,
                buffer |-> [block_buffer EXCEPT ![block_buffer_tail].flag = @ \cup {BUSY}]]
      null == [block |-> NONE, buffer |-> block_buffer]
  IN  IF blocks_queued THEN claim ELSE null

\* Planner::get_current_block(): the block it returns (NONE for nullptr)
\* and block_buffer[] as it leaves it
get_current_block ==
  LET claim == [block |-> block_buffer_tail,
                buffer |-> [block_buffer EXCEPT ![block_buffer_tail].flag = @ \cup {BUSY}]]
      null == [block |-> NONE, buffer |-> block_buffer]
  IN  IF blocks_queued
      THEN IF movesplanned > 1
           THEN IF \/ TEST(block_buffer_tail, RECALCULATE)
                   \/ TEST(next_block_index(block_buffer_tail, BLOCK_BUFFER_SIZE), RECALCULATE)
                THEN null ELSE claim
           ELSE IF TEST(block_buffer_tail, RECALCULATE) THEN null ELSE claim
      ELSE null

\* discard_current_block without the blocks_queued() test
discard_current_block_unguarded ==
  BLOCK_MOD(block_buffer_tail + 1, BLOCK_BUFFER_SIZE)

\* Planner::discard_current_block(): block_buffer_tail as it leaves it
discard_current_block ==
  IF blocks_queued THEN BLOCK_MOD(block_buffer_tail + 1, BLOCK_BUFFER_SIZE)
  ELSE block_buffer_tail

\* The stepper interrupt with no block in hand asks for the next one.
StepperClaim ==
  /\ stepper_isr_enabled
  /\ current_block = NONE
  /\ current_block' = get_current_block.block
  /\ block_buffer' = get_current_block.buffer
  /\ UNCHANGED <<host_vars, thermal_vars, BLOCK_BUFFER_SIZE, ring_vars, planner_vars, stepper_isr_enabled,
                 pc, mv, loc, waited, ghost_vars>>

\* a stepper interrupt that drops its block without retiring it
StepperRetire_keeps_tail ==
  /\ stepper_isr_enabled
  /\ current_block # NONE
  /\ current_block' = NONE
  /\ UNCHANGED <<host_vars, thermal_vars, BLOCK_BUFFER_SIZE, block_buffer, ring_vars, planner_vars,
                 stepper_isr_enabled, pc, mv, loc, waited, ghost_vars>>

\* The stepper interrupt has stepped out its block and retires it.
StepperRetire ==
  /\ stepper_isr_enabled
  /\ current_block # NONE
  /\ current_block' = NONE
  /\ block_buffer_tail' = discard_current_block
  /\ retired' = IF blocks_queued THEN retired + 1 ELSE retired
  /\ UNCHANGED <<host_vars, thermal_vars, BLOCK_BUFFER_SIZE, block_buffer, block_buffer_head, planner_vars,
                 stepper_isr_enabled, pc, mv, loc, waited, published, built,
                 trap_written, pass_written, busy_write>>

\* ------------------------------------------------------------------------
\* Planner::_buffer_line up to the publication of the block
\* ------------------------------------------------------------------------

\* The call: target, deltas and the cold-extrusion check (4693-4811)
BufferLine(m) ==
  /\ pc = "idle"
  /\ published < MaxMoves
  /\ pc' = "wait"
  /\ mv' = m
  /\ waited' = FALSE
  /\ position' = PositionAfterColdCheck(position, m)
  /\ UNCHANGED <<host_vars, thermal_vars, BLOCK_BUFFER_SIZE, block_buffer, ring_vars, previous_speed,
                 previous_nominal_speed, previous_safe_speed, stepper_isr_enabled,
                 current_block, loc, ghost_vars>>

\* while (block_buffer_tail == next_buffer_head) idle();  (4815)
WaitFull ==
  /\ pc = "wait"
  /\ is_full
  /\ waited' = TRUE
  /\ UNCHANGED <<host_vars, thermal_vars, BLOCK_BUFFER_SIZE, block_buffer, ring_vars, planner_vars,
                 stepper_isr_enabled, current_block, pc, mv, loc, ghost_vars>>

\* the wait loop left although the ring is full
WaitDone_on_full_ring ==
  /\ pc = "wait"
  /\ pc' = "build"
  /\ UNCHANGED <<host_vars, thermal_vars, BLOCK_BUFFER_SIZE, block_buffer, ring_vars, planner_vars,
                 stepper_isr_enabled, current_block, mv, loc, waited, ghost_vars>>

WaitDone ==
  /\ pc = "wait"
  /\ ~is_full
  /\ pc' = "build"
  /\ UNCHANGED <<host_vars, thermal_vars, BLOCK_BUFFER_SIZE, block_buffer, ring_vars, planner_vars,
                 stepper_isr_enabled, current_block, mv, loc, waited, ghost_vars>>

\* The writes to the slot at head (4818-5338): a move below
\* MIN_STEPS_PER_SEGMENT returns at 4851 with the slot half written.
Build ==
  /\ pc = "build"
  /\ IF IsDropped(position, mv)
     THEN /\ block_buffer' = [block_buffer EXCEPT ![block_buffer_head] =
                                SlotAfterSteps(@, position, mv)]
          /\ built' = built \ {block_buffer_head}
          /\ pc' = "idle"
          /\ mv' = NoMove
          /\ UNCHANGED <<previous_speed, previous_nominal_speed, previous_safe_speed>>
     ELSE LET r == BuildBlock(block_buffer[block_buffer_head], position, previous_speed,
                              previous_nominal_speed, previous_safe_speed,
                              movesplanned, stepper_isr_enabled, mv)
          IN  /\ block_buffer' = [block_buffer EXCEPT ![block_buffer_head] = r.block]
              /\ previous_speed' = r.speed
              /\ previous_nominal_speed' = r.nominal_speed
              /\ previous_safe_speed' = r.safe_speed
              /\ built' = built \cup {block_buffer_head}
              /\ pc' = "publish"
              /\ mv' = mv
  /\ trap_written' = trap_written \ {block_buffer_head}
  /\ UNCHANGED <<host_vars, thermal_vars, BLOCK_BUFFER_SIZE, ring_vars, position, stepper_isr_enabled,
                 current_block, loc, waited, published, retired, pass_written,
                 busy_write>>

\* block->steps[i], negative when the axis' bit of direction_bits is set
SignedSteps(block) ==
  [i \in XYZE |-> IF i \in block.direction_bits THEN -block.steps[i] ELSE block.steps[i]]

\* block_buffer_head = next_buffer_head; COPY(position, target);  (5371-5375)
Publish ==
  /\ pc = "publish"
  /\ block_buffer_head' = next_block_index(block_buffer_head, BLOCK_BUFFER_SIZE)
  /\ position' = TargetSteps(mv)
  /\ published' = published + 1
  /\ pc' = "reverse"
  /\ set_call' = NoCall
  /\ published_steps' = [i \in XYZE |->
                           published_steps[i] + SignedSteps(block_buffer[block_buffer_head])[i]]
  /\ UNCHANGED <<serial_vars, runaway_vars, pwm_vars, set_steps, skipped, thermal_vars, BLOCK_BUFFER_SIZE, block_buffer, block_buffer_tail, previous_speed,
                 previous_nominal_speed, previous_safe_speed, stepper_isr_enabled,
                 current_block, mv, loc, waited, retired, built, trap_written,
                 pass_written, busy_write>>

\* ------------------------------------------------------------------------
\* Planner::recalculate (4354-4358), run by _buffer_line at 5383
\* ------------------------------------------------------------------------

\* a reverse kernel that always raises the entry speed to the maximum
reverse_pass_kernel_max(current, next) == [changed |-> block_buffer[current].entry_speed # block_buffer[current].max_entry_speed, entry_speed |-> block_buffer[current].max_entry_speed]

\* The kernels' decisions: whether the kernel writes current->entry_speed
\* (and then sets RECALCULATE), and the value it writes.
reverse_pass_kernel(current, next) ==
  LET c == block_buffer[current]
      n == block_buffer[next]
      max_entry_speed == c.max_entry_speed
  IN  IF c.entry_speed # max_entry_speed
      THEN [changed |-> TRUE,
            entry_speed |->
              IF NOMINAL_LENGTH \in c.flag \/ max_entry_speed <= n.entry_speed
              THEN max_entry_speed
              ELSE Min(max_entry_speed,
                       max_allowable_speed(-c.acceleration, n.entry_speed, c.millimeters))]
      ELSE [changed |-> FALSE, entry_speed |-> c.entry_speed]

\* a forward pass that lowers nothing
forward_pass_kernel_off(previous, current) ==
  [changed |-> FALSE, entry_speed |-> 0]

forward_pass_kernel(previous, current) ==
  IF previous = NONE
  THEN [changed |-> FALSE, entry_speed |-> 0]
  ELSE LET p == block_buffer[previous]
           c == block_buffer[current]
           entry_speed == Min(c.entry_speed,
                              max_allowable_speed(-p.acceleration, p.entry_speed, p.millimeters))
       IN  IF /\ NOMINAL_LENGTH \notin p.flag
              /\ p.entry_speed < c.entry_speed
              /\ c.entry_speed # entry_speed
           THEN [changed |-> TRUE, entry_speed |-> entry_speed]
           ELSE [changed |-> FALSE, entry_speed |-> c.entry_speed]

\* What busy_write becomes when the foreground writes slot i from `who`.
NoteWrite(i, who) ==
  IF InRing(i) /\ TEST(i, BUSY) THEN who ELSE busy_write

\* The store half of SBI / CBI: the byte loaded earlier, with its bit
\* changed, replaces the flag byte in memory.
StoreFlag(who) ==
  /\ block_buffer' = [block_buffer EXCEPT ![loc.store].flag = loc.flag]
  /\ busy_write' = NoteWrite(loc.store, who)

\* reverse_pass: if (movesplanned() > 3) { endnr = ...; blocknr = ...; }
ReverseStart ==
  /\ pc = "reverse"
  /\ pass_written' = {}
  /\ IF movesplanned > 3
     THEN /\ loc' = [NoLocals EXCEPT
                       !.endnr = BLOCK_MOD(block_buffer_tail + 2, BLOCK_BUFFER_SIZE),
                       !.blocknr = prev_block_index(block_buffer_head, BLOCK_BUFFER_SIZE)]
          /\ pc' = "reverse_loop"
     ELSE /\ loc' = NoLocals
          /\ pc' = "forward"
  /\ UNCHANGED <<host_vars, thermal_vars, BLOCK_BUFFER_SIZE, block_buffer, ring_vars, planner_vars,
                 stepper_isr_enabled, current_block, mv, waited, published,
                 retired, built, trap_written, busy_write>>

\* One turn of the do-while of reverse_pass, up to the load of SBI.
ReverseLoop ==
  /\ pc = "reverse_loop"
  /\ LET next == loc.blocknr
         blocknr == prev_block_index(next, BLOCK_BUFFER_SIZE)
         k == reverse_pass_kernel(blocknr, next)
     IN  IF TEST(blocknr, START_FROM_FULL_HALT)
         THEN /\ pc' = "forward"
              /\ loc' = NoLocals
              /\ UNCHANGED <<block_buffer, busy_write>>
         ELSE IF k.changed
         THEN /\ block_buffer' = [block_buffer EXCEPT ![blocknr].entry_speed = k.entry_speed]
              /\ busy_write' = NoteWrite(blocknr, "reverse_pass_kernel")
              /\ loc' = [loc EXCEPT !.blocknr = blocknr, !.store = blocknr,
                                    !.flag = block_buffer[blocknr].flag \cup {RECALCULATE},
                                    !.last = (blocknr = loc.endnr)]
              /\ pc' = "reverse_store"
         ELSE /\ loc' = IF blocknr = loc.endnr THEN NoLocals
                        ELSE [loc EXCEPT !.blocknr = blocknr]
              /\ pc' = IF blocknr = loc.endnr THEN "forward" ELSE "reverse_loop"
              /\ UNCHANGED <<block_buffer, busy_write>>
  /\ UNCHANGED <<host_vars, thermal_vars, BLOCK_BUFFER_SIZE, ring_vars, planner_vars, stepper_isr_enabled,
                 current_block, mv, waited, published, retired, built,
                 trap_written, pass_written>>

ReverseStore ==
  /\ pc = "reverse_store"
  /\ StoreFlag("reverse_pass_kernel")
  /\ loc' = IF loc.last THEN NoLocals
            ELSE [loc EXCEPT !.store = NONE, !.flag = {}, !.last = FALSE]
  /\ pc' = IF loc.last THEN "forward" ELSE "reverse_loop"
  /\ UNCHANGED <<host_vars, thermal_vars, BLOCK_BUFFER_SIZE, ring_vars, planner_vars, stepper_isr_enabled,
                 current_block, mv, waited, published, retired, built,
                 trap_written, pass_written>>

\* forward_pass: block[3] = { nullptr, ... }; b = block_buffer_tail
ForwardStart ==
  /\ pc = "forward"
  /\ loc' = [NoLocals EXCEPT !.b = block_buffer_tail]
  /\ pc' = "forward_loop"
  /\ UNCHANGED <<host_vars, thermal_vars, BLOCK_BUFFER_SIZE, block_buffer, ring_vars, planner_vars,
                 stepper_isr_enabled, current_block, mv, waited, ghost_vars>>

\* One turn of the for loop of forward_pass, or the kernel call after it,
\* up to the load of SBI.
ForwardLoop ==
  /\ pc = "forward_loop"
  /\ LET inloop == loc.b # block_buffer_head
         block == IF inloop THEN <<loc.block[2], loc.block[3], loc.b>> ELSE loc.block
         previous == IF inloop THEN block[1] ELSE block[2]
         current == IF inloop THEN block[2] ELSE block[3]
         b == IF inloop THEN next_block_index(loc.b, BLOCK_BUFFER_SIZE) ELSE loc.b
         k == forward_pass_kernel(previous, current)
     IN  IF k.changed
         THEN /\ block_buffer' = [block_buffer EXCEPT ![current].entry_speed = k.entry_speed]
              /\ busy_write' = NoteWrite(current, "forward_pass_kernel")
              /\ loc' = [loc EXCEPT !.b = b, !.block = block, !.store = current,
                                    !.flag = block_buffer[current].flag \cup {RECALCULATE},
                                    !.last = ~inloop]
              /\ pc' = "forward_store"
         ELSE /\ loc' = IF inloop THEN [loc EXCEPT !.b = b, !.block = block] ELSE NoLocals
              /\ pc' = IF inloop THEN "forward_loop" ELSE "trapezoids"
              /\ UNCHANGED <<block_buffer, busy_write>>
  /\ UNCHANGED <<host_vars, thermal_vars, BLOCK_BUFFER_SIZE, ring_vars, planner_vars, stepper_isr_enabled,
                 current_block, mv, waited, published, retired, built,
                 trap_written, pass_written>>

ForwardStore ==
  /\ pc = "forward_store"
  /\ StoreFlag("forward_pass_kernel")
  /\ loc' = IF loc.last THEN NoLocals
            ELSE [loc EXCEPT !.store = NONE, !.flag = {}, !.last = FALSE]
  /\ pc' = IF loc.last THEN "trapezoids" ELSE "forward_loop"
  /\ UNCHANGED <<host_vars, thermal_vars, BLOCK_BUFFER_SIZE, ring_vars, planner_vars, stepper_isr_enabled,
                 current_block, mv, waited, published, retired, built,
                 trap_written, pass_written>>

\* recalculate_trapezoids: block_index = block_buffer_tail; next = nullptr
TrapezoidsStart ==
  /\ pc = "trapezoids"
  /\ loc' = [NoLocals EXCEPT !.block_index = block_buffer_tail]
  /\ pc' = "trapezoid_loop"
  /\ UNCHANGED <<host_vars, thermal_vars, BLOCK_BUFFER_SIZE, block_buffer, ring_vars, planner_vars,
                 stepper_isr_enabled, current_block, mv, waited, ghost_vars>>

\* a critical section that never writes
trapezoid_writable_never(i) == FALSE

\* if (!TEST(block->flag, BLOCK_BIT_BUSY))  (4110)
trapezoid_writable(i) == ~TEST(i, BUSY)

\* The critical section of calculate_trapezoid_for_block (4107-4132) on
\* slot i: block_buffer[] as it leaves it.
WriteTrapezoid(i, entry_speed, next_entry_speed) ==
  LET t == calculate_trapezoid_for_block(block_buffer[i], entry_speed, next_entry_speed)
  IN  IF ~trapezoid_writable(i) THEN block_buffer
      ELSE [block_buffer EXCEPT ![i].accelerate_until = t.accelerate_until,
                                ![i].decelerate_after = t.decelerate_after,
                                ![i].initial_rate = t.initial_rate,
                                ![i].final_rate = t.final_rate,
                                ![i].acceleration_rate = t.acceleration_rate]

\* One turn of the while loop of recalculate_trapezoids, or the block after
\* it (4324-4327), up to the load of CBI.
TrapezoidLoop ==
  /\ pc = "trapezoid_loop"
  /\ LET inloop == loc.block_index # block_buffer_head
         current == loc.next
         next == loc.block_index
         recalc == IF inloop
                   THEN current # NONE /\ (TEST(current, RECALCULATE) \/ TEST(next, RECALCULATE))
                   ELSE current # NONE
         next_entry_speed == IF inloop THEN block_buffer[next].entry_speed ELSE 0
     IN  IF recalc
         THEN /\ block_buffer' = WriteTrapezoid(current, block_buffer[current].entry_speed,
                                                next_entry_speed)
              /\ trap_written' = IF trapezoid_writable(current)
                                 THEN trap_written \cup {current} ELSE trap_written
              /\ pass_written' = IF trapezoid_writable(current)
                                 THEN pass_written \cup {current} ELSE pass_written
              /\ loc' = [loc EXCEPT !.next = IF inloop THEN next ELSE current,
                                    !.store = current,
                                    !.flag = block_buffer[current].flag \ {RECALCULATE},
                                    !.last = ~inloop]
              /\ pc' = "trapezoid_store"
         ELSE /\ loc' = IF inloop
                        THEN [loc EXCEPT !.next = next,
                                !.block_index = next_block_index(next, BLOCK_BUFFER_SIZE)]
                        ELSE NoLocals
              /\ pc' = IF inloop THEN "trapezoid_loop" ELSE "wake_up"
              /\ UNCHANGED <<block_buffer, trap_written, pass_written>>
  /\ UNCHANGED <<host_vars, thermal_vars, BLOCK_BUFFER_SIZE, ring_vars, planner_vars, stepper_isr_enabled,
                 current_block, mv, waited, published, retired, built, busy_write>>

\* a store that leaves RECALCULATE set
TrapezoidStore_no_clear ==
  /\ pc = "trapezoid_store"
  /\ loc' = IF loc.last THEN NoLocals
            ELSE [loc EXCEPT !.store = NONE, !.flag = {}, !.last = FALSE,
                    !.block_index = next_block_index(loc.block_index, BLOCK_BUFFER_SIZE)]
  /\ pc' = IF loc.last THEN "wake_up" ELSE "trapezoid_loop"
  /\ UNCHANGED <<host_vars, thermal_vars, BLOCK_BUFFER_SIZE, block_buffer, ring_vars, planner_vars,
                 stepper_isr_enabled, current_block, mv, waited, ghost_vars>>

\* the store half of CBI(current->flag, BLOCK_BIT_RECALCULATE)  (4318, 4326)
TrapezoidStore ==
  /\ pc = "trapezoid_store"
  /\ StoreFlag("recalculate_trapezoids")
  /\ loc' = IF loc.last THEN NoLocals
            ELSE [loc EXCEPT !.store = NONE, !.flag = {}, !.last = FALSE,
                    !.block_index = next_block_index(loc.block_index, BLOCK_BUFFER_SIZE)]
  /\ pc' = IF loc.last THEN "wake_up" ELSE "trapezoid_loop"
  /\ UNCHANGED <<host_vars, thermal_vars, BLOCK_BUFFER_SIZE, ring_vars, planner_vars, stepper_isr_enabled,
                 current_block, mv, waited, published, retired, built,
                 trap_written, pass_written>>

\* stepper.wake_up() (5385) and the return of _buffer_line
WakeUp ==
  /\ pc = "wake_up"
  /\ stepper_isr_enabled' = TRUE
  /\ pc' = "idle"
  /\ mv' = NoMove
  /\ loc' = NoLocals
  /\ pass_written' = {}
  /\ UNCHANGED <<host_vars, thermal_vars, BLOCK_BUFFER_SIZE, block_buffer, ring_vars, planner_vars,
                 current_block, waited, published, retired, built, trap_written,
                 busy_write>>

Stepper == StepperClaim \/ StepperRetire

\* the steps of a _buffer_line call once it is past the wait loop
Planning ==
  \/ WaitDone
  \/ Build
  \/ Publish
  \/ ReverseStart
  \/ ReverseLoop
  \/ ReverseStore
  \/ ForwardStart
  \/ ForwardLoop
  \/ ForwardStore
  \/ TrapezoidsStart
  \/ TrapezoidLoop
  \/ TrapezoidStore
  \/ WakeUp

Producer ==
  \/ \E m \in Moves : BufferLine(m)
  \/ WaitFull
  \/ Planning

Next == Producer \/ Stepper

Spec == Init /\ [][Next]_vars

\* The stepper interrupt, once enabled, keeps firing: it fetches a block when
\* it has none and retires the block it has stepped out.  The foreground
\* leaves the wait loop once the ring has room and then writes the block:
\* []<>(pc # "build") is WF_vars(Build) spelled without ENABLED, since Build
\* is enabled exactly when pc = "build" and every Build step leaves it.
FairSpec ==
  /\ Spec
  /\ WF_vars(Stepper)
  /\ WF_vars(WaitDone)
  /\ []<>(pc # "build")

\* ------------------------------------------------------------------------
\* Properties
\* ------------------------------------------------------------------------

\* C1: under every interleaving of _buffer_line / recalculate with the
\* stepper interrupt, no producer step writes a field (entry_speed, flag
\* bits, trapezoid fields) of a block that is in the ring and has BUSY set.
C1_NoProducerWriteToBusyBlock == busy_write = "none"

\* C2: movesplanned() is the number of blocks published minus the number
\* retired and lies in 0 .. BLOCK_BUFFER_SIZE-1; blocks_queued() is false
\* exactly when head = tail; is_full() is true exactly when next(head) =
\* tail; discard_current_block on an empty ring leaves tail unchanged.
C2_RingAccounting ==
  /\ movesplanned = published - retired
  /\ movesplanned \in 0 .. BLOCK_BUFFER_SIZE - 1
  /\ blocks_queued <=> block_buffer_head # block_buffer_tail
  /\ is_full <=> next_block_index(block_buffer_head, BLOCK_BUFFER_SIZE) = block_buffer_tail
  /\ block_buffer_head = block_buffer_tail => discard_current_block = block_buffer_tail

\* the ring has wrapped: it is full again after a block was retired
C2_Witness == is_full /\ retired > 0 /\ block_buffer_head < block_buffer_tail

\* C3: from an empty ring with nothing retired the first CAP-1 enqueues
\* publish without waiting; while next(head) = tail the slot at head is not
\* written and head does not advance; the CAP-th block is published only
\* after the consumer has advanced tail.
C3_FullRingBlocksEnqueue ==
  /\ [](retired = 0 /\ published < BLOCK_BUFFER_SIZE - 1 => ~waited)
  /\ [](published >= BLOCK_BUFFER_SIZE => retired >= 1)
  /\ [][is_full => /\ block_buffer_head' = block_buffer_head
                   /\ block_buffer'[block_buffer_head] = block_buffer[block_buffer_head]]_vars

\* the CAP-th enqueue has waited on the full ring and is about to publish
C3_Witness ==
  /\ waited
  /\ pc = "publish"
  /\ published = BLOCK_BUFFER_SIZE - 1
  /\ retired = 1

\* C4: while the stepper keeps claiming and retiring blocks, a _buffer_line
\* call that finds the ring full eventually leaves its wait loop and
\* publishes its block.
C4_FullRingWaitEnds ==
  (pc = "wait" /\ is_full /\ ~IsDropped(position, mv)) ~> (pc = "publish" /\ ~is_full)

\* a call is waiting on the full ring with a move that will make a block
C4_Witness ==
  pc = "wait" /\ is_full /\ waited /\ ~IsDropped(position, mv)

\* C5: get_current_block returns null when the ring is empty, when the tail
\* block has RECALCULATE set, or when more than one block is queued and the
\* block after tail has RECALCULATE set; otherwise it sets BUSY on the tail
\* block and returns it; head and tail are unchanged in every case.
C5_GetCurrentBlock ==
  /\ [](LET after == next_block_index(block_buffer_tail, BLOCK_BUFFER_SIZE)
            null == \/ block_buffer_head = block_buffer_tail
                    \/ RECALCULATE \in block_buffer[block_buffer_tail].flag
                    \/ published - retired > 1 /\ RECALCULATE \in block_buffer[after].flag
        IN  IF null
            THEN get_current_block = [block |-> NONE, buffer |-> block_buffer]
            ELSE /\ get_current_block.block = block_buffer_tail
                 /\ get_current_block.buffer =
                      [block_buffer EXCEPT ![block_buffer_tail].flag = @ \cup {BUSY}])
  /\ [][current_block' # current_block /\ current_block' # NONE =>
          /\ UNCHANGED ring_vars
          /\ current_block' = block_buffer_tail
          /\ BUSY \in block_buffer'[block_buffer_tail].flag]_vars

\* the stepper asks for a block while only the block after tail is still
\* marked RECALCULATE
C5_Witness ==
  /\ stepper_isr_enabled
  /\ current_block = NONE
  /\ movesplanned > 1
  /\ ~TEST(block_buffer_tail, RECALCULATE)
  /\ TEST(next_block_index(block_buffer_tail, BLOCK_BUFFER_SIZE), RECALCULATE)

\* C6 as stated: every block of the ring window [tail, head) has all of its
\* fields written for its move, the trapezoid fields included.
C6_AllFieldsBeforeHead ==
  \A i \in Slots : InRing(i) => i \in built /\ i \in trap_written

\* C6 amended: every block of the ring window has the fields _buffer_line
\* writes, and has its trapezoid fields as soon as RECALCULATE is clear on
\* it; the block the stepper holds has them all.
C6_FieldsBeforeClaim ==
  /\ \A i \in Slots : InRing(i) =>
        /\ i \in built
        /\ block_buffer[i].step_event_count >= MIN_STEPS_PER_SEGMENT
        /\ (~TEST(i, RECALCULATE) => i \in trap_written)
  /\ current_block # NONE => current_block \in built \cap trap_written

\* head was advanced over a block whose trapezoid is not written yet
C6_Witness ==
  /\ pc = "reverse"
  /\ \E i \in Slots : InRing(i) /\ i \in built /\ i \notin trap_written

C8_TrapezoidOrdered ==
  \A i \in trap_written :
    /\ 0 <= block_buffer[i].accelerate_until
    /\ block_buffer[i].accelerate_until <= block_buffer[i].decelerate_after
    /\ block_buffer[i].decelerate_after <= block_buffer[i].step_event_count

\* C9: every non-busy block of the ring has
\* 0 <= entry_speed <= max_entry_speed <= nominal_speed.
C9_EntrySpeedBounded ==
  \A i \in Slots : InRing(i) /\ ~TEST(i, BUSY) =>
    /\ 0 <= block_buffer[i].entry_speed
    /\ block_buffer[i].entry_speed <= block_buffer[i].max_entry_speed
    /\ block_buffer[i].max_entry_speed <= block_buffer[i].nominal_speed

\* C10: after recalculate() has completed, adjacent non-busy blocks (B, C) of
\* the ring have entry speeds within reach of each other across B:
\* C.entry^2 <= B.entry^2 + 2 B.acceleration B.millimeters and
\* B.entry^2 <= C.entry^2 + 2 B.acceleration B.millimeters.
C10_AdjacentReachable ==
  pc \in {"wake_up", "idle", "wait", "build", "publish"} =>
    \A i \in Slots :
      LET j == next_block_index(i, BLOCK_BUFFER_SIZE)
          B == block_buffer[i]
          C == block_buffer[j]
          reach == 2 * B.acceleration * B.millimeters * (sq(SU) \div MM)
      IN  InRing(i) /\ InRing(j) /\ ~TEST(i, BUSY) /\ ~TEST(j, BUSY) =>
            /\ sq(C.entry_speed) <= sq(B.entry_speed) + reach
            /\ sq(B.entry_speed) <= sq(C.entry_speed) + reach

\* recalculate() has completed on a ring where the forward pass had to
\* lower an entry speed
C10_Witness ==
  /\ pc = "wake_up"
  /\ \E i \in Slots :
       LET j == next_block_index(i, BLOCK_BUFFER_SIZE)
       IN  /\ InRing(i) /\ InRing(j) /\ ~TEST(i, BUSY) /\ ~TEST(j, BUSY)
           /\ block_buffer[j].entry_speed > 0
           /\ block_buffer[j].entry_speed < block_buffer[j].max_entry_speed

\* ------------------------------------------------------------------------
\* The heater control loop (thermal.cpp)
\* ------------------------------------------------------------------------

\* Raw ADC values are modelled on a five-level scale: the thermistor table
\* spans TABLE_LO .. TABLE_HI, its end points are the raw values of the
\* minimum and maximum temperature, and levels 0 and 4 lie outside the table.
RawLevels == 0 .. 4

\* the values the running averages of the two sensors take: any, or those
\* of a hot end that stays in the middle of the table or fails, next to a
\* bed that stays in the middle
HotendSamples == {0, 2, 3}

BedSamples == {2}

StuckHotendSamples == {2, 3}

StuckBedSamples == {2}

TABLE_LO == 1

TABLE_HI == 3

HEATER_0_MINTEMP == 5

HEATER_0_MAXTEMP == 275

BED_MINTEMP == 5

BED_MAXTEMP == 275

\* the temperature the sensor reads in the middle of the table
MID_TEMP == 180

WATCH_TEMP_INCREASE == 2

TEMP_HYSTERESIS == 2

WATCH_TEMP_PERIOD == 1

WATCH_BED_TEMP_INCREASE == 2

TEMP_BED_HYSTERESIS == 2

WATCH_BED_TEMP_PERIOD == 1

\* the watchdog period, in watchdog ticks
WDT_TIMEOUT == 2

\* the duties HeaterManager::get_power returns
PowerLevels == {0, 128, 255}

\* the targets M104 / M140 set
HotendTargets == {0, 200}

BedTargets == {0, 200}

\* the values of the free-running uint8 pwm_counter a tick is tried at
PwmCounts == {0, 129, 255}

MaxMs == 2

\* Thermistor::clamp_adc (thermal.cpp:405-406)
clamp_adc(raw) == Max(TABLE_LO, Min(raw, TABLE_HI))

\* Thermistor::adc_to_temperature (thermal.cpp:352-355): the monotone table,
\* rising or falling with the raw value as the build has it
adc_to_temperature(raw) ==
  LET level == IF HEATER_0_RAW_LO_LT_HI THEN raw ELSE TABLE_LO + TABLE_HI - raw
  IN  CASE level <= TABLE_LO -> HEATER_0_MINTEMP
        [] level >= TABLE_HI -> HEATER_0_MAXTEMP
        [] OTHER -> MID_TEMP

\* TemperatureValueConverter<...>::Adc (Marlin_main.cpp:5590-5599)
min_temperature_Adc == IF HEATER_0_RAW_LO_LT_HI THEN TABLE_LO ELSE TABLE_HI

max_temperature_Adc == IF HEATER_0_RAW_LO_LT_HI THEN TABLE_HI ELSE TABLE_LO

\* thermal.cpp:379-389 and 392-402: the sample is at or beyond the limit
raw_at_max(raw) ==
  IF HEATER_0_RAW_LO_LT_HI THEN raw >= max_temperature_Adc ELSE raw <= max_temperature_Adc

raw_at_min(raw) ==
  IF HEATER_0_RAW_LO_LT_HI THEN min_temperature_Adc >= raw ELSE min_temperature_Adc <= raw

\* is_preheating (Marlin_main.cpp:5656)
is_preheating == FALSE

\* start_watching_heater (thermal.cpp:464-471): the watch target and deadline
start_watching_heater(current, target, now) ==
  IF current < target - (WATCH_TEMP_INCREASE + TEMP_HYSTERESIS + 1)
  THEN [target |-> current + WATCH_TEMP_INCREASE, next_ms |-> now + WATCH_TEMP_PERIOD]
  ELSE [target |-> watch_target_temp, next_ms |-> 0]

\* start_watching_bed (thermal.cpp:478-485)
start_watching_bed(current, target, now) ==
  IF current < target - (WATCH_BED_TEMP_INCREASE + TEMP_BED_HYSTERESIS + 1)
  THEN [target |-> current + WATCH_BED_TEMP_INCREASE,
        next_ms |-> now + WATCH_BED_TEMP_PERIOD]
  ELSE [target |-> watch_target_bed_temp, next_ms |-> 0]

\* ELAPSED(now, soon)
ELAPSED(now, soon) == now >= soon

machine_vars == <<HEATER_0_RAW_LO_LT_HI, Running, killed, interrupts, board_reset>>

adc_vars == <<raw_adc_hotend, raw_adc_bed, ready_, adc_sensor_state,
              local_raw_adc_hotend, adc_last>>

watch_vars == <<watch_target_temp, watch_heater_next_ms, watch_target_bed_temp,
                watch_bed_next_ms>>

\* setTargetHotend (Marlin_main.cpp:5673-5676), called by M104 from the main loop
setTargetHotend(celsius) ==
  /\ pc = "idle"
  /\ ~board_reset
  /\ LET w == start_watching_heater(current_temperature, celsius, ms)
     IN  /\ target_temperature' = celsius
         /\ watch_target_temp' = w.target
         /\ watch_heater_next_ms' = w.next_ms
  /\ UNCHANGED <<host_vars, motion_vars, machine_vars, adc_vars, target_temperature_bed,
                 current_temperature, current_temperature_bed, soft_pwm_amount,
                 is_bed_heating, heater_0, heater_bed, temperature_raw,
                 watch_target_bed_temp, watch_bed_next_ms, ms, wdt>>

\* setTargetBed (Marlin_main.cpp:5678-5681), called by M140 from the main loop
setTargetBed(celsius) ==
  /\ pc = "idle"
  /\ ~board_reset
  /\ LET t == Min(celsius, BED_MAXTEMP)
         w == start_watching_bed(current_temperature_bed, t, ms)
     IN  /\ target_temperature_bed' = t
         /\ watch_target_bed_temp' = w.target
         /\ watch_bed_next_ms' = w.next_ms
  /\ UNCHANGED <<host_vars, motion_vars, machine_vars, adc_vars, target_temperature,
                 current_temperature, current_temperature_bed, soft_pwm_amount,
                 is_bed_heating, heater_0, heater_bed, temperature_raw,
                 watch_target_temp, watch_heater_next_ms, ms, wdt>>

\* interrupt::set_adc writing the hot end's value only, as set_adc_hotend does
set_adc_hotend_only(hotend, bed) ==
  [raw_adc_hotend |-> hotend, raw_adc_bed |-> raw_adc_bed, ready_ |-> TRUE]

\* interrupt::set_adc leaving the ready flag as it is
set_adc_unflagged(hotend, bed) ==
  [raw_adc_hotend |-> hotend, raw_adc_bed |-> bed, ready_ |-> ready_]

\* interrupt::set_adc (thermal.cpp:73-78)
set_adc(hotend, bed) ==
  [raw_adc_hotend |-> hotend, raw_adc_bed |-> bed, ready_ |-> TRUE]

\* manage_heater (thermal.cpp:254-259) entering updateTemperaturesFromRawValues
\* (363-366): the test of the ready flag, made with interrupts enabled.  With
\* the flag clear both functions return false and nothing changes.
ManageHeaterPoll ==
  /\ pc = "idle"
  /\ ~board_reset
  /\ ready_
  /\ pc' = "critsec"
  /\ UNCHANGED <<host_vars, BLOCK_BUFFER_SIZE, block_buffer, ring_vars, planner_vars,
                 stepper_isr_enabled, current_block, mv, loc, waited, ghost_vars,
                 thermal_vars>>

\* the critical section of updateTemperaturesFromRawValues (thermal.cpp:369-376)
ManageHeaterRead ==
  /\ pc = "critsec"
  /\ ~board_reset
  /\ temperature_raw' = <<raw_adc_hotend, raw_adc_bed>>
  /\ ready_' = FALSE
  /\ pc' = "update"
  /\ UNCHANGED <<host_vars, BLOCK_BUFFER_SIZE, block_buffer, ring_vars, planner_vars,
                 stepper_isr_enabled, current_block, mv, loc, waited, ghost_vars,
                 machine_vars, watch_vars, target_temperature, target_temperature_bed,
                 current_temperature, current_temperature_bed, soft_pwm_amount,
                 is_bed_heating, heater_0, heater_bed, raw_adc_hotend, raw_adc_bed,
                 adc_sensor_state, local_raw_adc_hotend, adc_last, ms, wdt>>

\* the limit checks with the target left out of the conditions
hotend_limit_error_any_target(raw, target) == raw_at_max(raw) \/ raw_at_min(raw)

\* the limit checks of updateTemperaturesFromRawValues (thermal.cpp:378-389)
hotend_limit_error(raw, target) ==
  \/ raw_at_max(raw) /\ target > 0
  \/ raw_at_min(raw) /\ ~is_preheating /\ target > 0

\* thermal.cpp:391-402
bed_limit_error(raw, target) ==
  \/ raw_at_max(raw) /\ target > 0
  \/ raw_at_min(raw) /\ target > 0

\* a duty that is whatever the heater manager asks for
hotend_duties_unguarded(current, target) == PowerLevels

\* the hot end's duty (thermal.cpp:295-308): the values soft_pwm_amount may take
hotend_duties(current, target) ==
  IF target = 0 THEN {0}
  ELSE IF (current <= HEATER_0_MINTEMP \/ is_preheating) \/ current >= HEATER_0_MAXTEMP
       THEN {0}
       ELSE PowerLevels

\* the bed's bang-bang state (thermal.cpp:311-347)
bed_heating(current, target) ==
  IF current >= BED_MINTEMP /\ current <= BED_MAXTEMP THEN current < target ELSE FALSE

\* whether manage_heater writes the bed pin low (thermal.cpp:321, 346)
bed_forced_low(current, target) ==
  target = 0 \/ ~(current >= BED_MINTEMP /\ current <= BED_MAXTEMP)

\* The rest of manage_heater after the critical section: the limit checks,
\* which end in _temp_error (thermal.cpp:204-233) and never return, or the
\* conversion, the watchdog reset (425), the watch checks (268-285) and the
\* duties (295-347).  kill() does not return, so _temp_error is entered with
\* killed clear.
ManageHeaterUpdate ==
  /\ pc = "update"
  /\ ~board_reset
  /\ LET raw == temperature_raw[1]
         bed_raw == temperature_raw[2]
         current == adc_to_temperature(clamp_adc(raw))
         current_bed == adc_to_temperature(clamp_adc(bed_raw))
         expired == watch_heater_next_ms # 0 /\ ELAPSED(ms, watch_heater_next_ms)
         bed_expired == watch_bed_next_ms # 0 /\ ELAPSED(ms, watch_bed_next_ms)
         w == start_watching_heater(current, target_temperature, ms)
         wb == start_watching_bed(current_bed, target_temperature_bed, ms)
     IN  IF \/ hotend_limit_error(raw, target_temperature)
            \/ bed_limit_error(bed_raw, target_temperature_bed)
         THEN /\ Running' = FALSE
              /\ killed' = TRUE
              /\ pc' = "kill"
              /\ UNCHANGED <<watch_vars, target_temperature, target_temperature_bed,
                             current_temperature, current_temperature_bed,
                             soft_pwm_amount, is_bed_heating, heater_0, heater_bed, wdt>>
         ELSE /\ current_temperature' = current
              /\ current_temperature_bed' = current_bed
              /\ wdt' = 0
              /\ watch_target_temp' = IF expired THEN w.target ELSE watch_target_temp
              /\ watch_heater_next_ms' = IF expired THEN w.next_ms ELSE watch_heater_next_ms
              /\ watch_target_bed_temp' =
                   IF bed_expired THEN wb.target ELSE watch_target_bed_temp
              /\ watch_bed_next_ms' = IF bed_expired THEN wb.next_ms ELSE watch_bed_next_ms
              /\ soft_pwm_amount' \in hotend_duties(current, target_temperature)
              /\ heater_0' = IF target_temperature = 0 THEN FALSE ELSE heater_0
              /\ is_bed_heating' = bed_heating(current_bed, target_temperature_bed)
              /\ heater_bed' = IF bed_forced_low(current_bed, target_temperature_bed)
                               THEN FALSE ELSE heater_bed
              /\ pc' = "idle"
              /\ UNCHANGED <<Running, killed, target_temperature, target_temperature_bed>>
  /\ UNCHANGED <<host_vars, BLOCK_BUFFER_SIZE, block_buffer, ring_vars, planner_vars,
                 stepper_isr_enabled, current_block, mv, loc, waited, ghost_vars,
                 HEATER_0_RAW_LO_LT_HI, interrupts, board_reset, adc_vars,
                 temperature_raw, ms>>

\* disable_all_heaters (thermal.cpp:554-578)
disable_all_heaters ==
  /\ target_temperature' = 0
  /\ watch_target_temp' = start_watching_heater(current_temperature, 0, ms).target
  /\ watch_heater_next_ms' = start_watching_heater(current_temperature, 0, ms).next_ms
  /\ watch_target_bed_temp' = start_watching_bed(current_temperature_bed, 0, ms).target
  /\ watch_bed_next_ms' = start_watching_bed(current_temperature_bed, 0, ms).next_ms
  /\ soft_pwm_amount' = 0
  /\ heater_0' = FALSE
  /\ target_temperature_bed' = 0
  /\ is_bed_heating' = FALSE
  /\ heater_bed' = FALSE

\* M112 as the serial reader of the main loop sees it (Marlin_main.cpp:671-681):
\* kill(PSTR(MSG_KILLED))
M112 ==
  /\ pc = "idle"
  /\ ~board_reset
  /\ pc' = "kill"
  /\ UNCHANGED <<host_vars, BLOCK_BUFFER_SIZE, block_buffer, ring_vars, planner_vars,
                 stepper_isr_enabled, current_block, mv, loc, waited, ghost_vars,
                 thermal_vars>>

\* kill (Marlin_main.cpp:3739-3746): heaters and stepper drivers off, then
\* 600 ms of delay with interrupts still enabled
KillDisable ==
  /\ pc = "kill"
  /\ ~board_reset
  /\ disable_all_heaters
  /\ pc' = "kill_delay"
  /\ UNCHANGED <<host_vars, BLOCK_BUFFER_SIZE, block_buffer, ring_vars, planner_vars,
                 stepper_isr_enabled, current_block, mv, loc, waited, ghost_vars,
                 machine_vars, adc_vars, current_temperature, current_temperature_bed,
                 temperature_raw, ms, wdt>>

\* kill (Marlin_main.cpp:3748-3754): cli(), the heaters off again, suicide()
KillCli ==
  /\ pc = "kill_delay"
  /\ ~board_reset
  /\ interrupts' = FALSE
  /\ disable_all_heaters
  /\ pc' = "kill_loop"
  /\ UNCHANGED <<host_vars, BLOCK_BUFFER_SIZE, block_buffer, ring_vars, planner_vars,
                 stepper_isr_enabled, current_block, mv, loc, waited, ghost_vars,
                 HEATER_0_RAW_LO_LT_HI, Running, killed, board_reset, adc_vars,
                 current_temperature, current_temperature_bed, temperature_raw, ms, wdt>>

\* one turn of the final loop of kill (Marlin_main.cpp:3755-3757)
KillLoop ==
  /\ pc = "kill_loop"
  /\ ~board_reset
  /\ wdt' = 0
  /\ UNCHANGED <<host_vars, motion_vars, machine_vars, adc_vars, watch_vars, target_temperature,
                 target_temperature_bed, current_temperature, current_temperature_bed,
                 soft_pwm_amount, is_bed_heating, heater_0, heater_bed,
                 temperature_raw, ms>>

\* One call of Temperature::isr (thermal.cpp:702-846).  The ADC part advances
\* the sensor state machine; the running averages of the two sensors are
\* modelled by the values they hold after the new sample, hotend_sample and
\* bed_sample.  The PWM part runs on every eighth call (skip_counter) and compares
\* the duties with the free-running pwm_counter: neither counter is kept, a
\* call is tried both as a skipped and as a driving one, at the counts of
\* PwmCounts.
Temperature_isr(hotend_sample, bed_sample) ==
  /\ interrupts
  /\ ~board_reset
  /\   CASE adc_sensor_state = "initialize_hotend" ->
              /\ adc_sensor_state' = "read_hotend"
              /\ UNCHANGED <<local_raw_adc_hotend, raw_adc_hotend, raw_adc_bed, ready_,
                             adc_last>>
         [] adc_sensor_state = "read_hotend" ->
              /\ local_raw_adc_hotend' = hotend_sample
              /\ adc_sensor_state' = "initialize_bed"
              /\ UNCHANGED <<raw_adc_hotend, raw_adc_bed, ready_, adc_last>>
         [] adc_sensor_state = "initialize_bed" ->
              /\ adc_sensor_state' = "read_bed"
              /\ UNCHANGED <<local_raw_adc_hotend, raw_adc_hotend, raw_adc_bed, ready_,
                             adc_last>>
         [] adc_sensor_state = "read_bed" ->
              LET written == set_adc(local_raw_adc_hotend, bed_sample)
              IN  /\ raw_adc_hotend' = written.raw_adc_hotend
                  /\ raw_adc_bed' = written.raw_adc_bed
                  /\ ready_' = written.ready_
                  /\ adc_last' = <<local_raw_adc_hotend, bed_sample>>
                  /\ adc_sensor_state' = "initialize_hotend"
                  /\ UNCHANGED local_raw_adc_hotend
  /\ \/ UNCHANGED <<heater_0, heater_bed>>
     \/ \E pwm_count \in PwmCounts :
          LET extruder_pwm == soft_pwm_amount
              bed_pwm == IF is_bed_heating THEN 255 ELSE 0
          IN  /\ heater_0' = (pwm_count <= extruder_pwm /\ extruder_pwm > 0)
              /\ heater_bed' = (pwm_count <= bed_pwm /\ bed_pwm > 0)
  /\ UNCHANGED <<host_vars, motion_vars, machine_vars, watch_vars, target_temperature,
                 target_temperature_bed, current_temperature, current_temperature_bed,
                 soft_pwm_amount, is_bed_heating, temperature_raw, ms, wdt>>

\* the timer interrupt behind millis(), one unit of time
Tick ==
  /\ interrupts
  /\ ~board_reset
  /\ ms < MaxMs
  /\ ms' = ms + 1
  /\ UNCHANGED <<host_vars, motion_vars, machine_vars, adc_vars, watch_vars, target_temperature,
                 target_temperature_bed, current_temperature, current_temperature_bed,
                 soft_pwm_amount, is_bed_heating, heater_0, heater_bed,
                 temperature_raw, wdt>>

\* The watchdog's own oscillator (started at Marlin_main.cpp:3843): it counts
\* on whatever the processor does and resets the board when the count
\* reaches its period without a wdr().
WatchdogTick ==
  /\ ~board_reset
  /\ wdt' = wdt + 1
  /\ board_reset' = (wdt + 1 >= WDT_TIMEOUT)
  /\ UNCHANGED <<host_vars, motion_vars, HEATER_0_RAW_LO_LT_HI, Running, killed, interrupts,
                 adc_vars, watch_vars, target_temperature, target_temperature_bed,
                 current_temperature, current_temperature_bed, soft_pwm_amount,
                 is_bed_heating, heater_0, heater_bed, temperature_raw, ms>>

\* manage_heater, called by idle() and the main loop
manage_heater == ManageHeaterPoll \/ ManageHeaterRead \/ ManageHeaterUpdate

\* the heater loop with the planner at rest, in a build of either orientation
HeaterInit ==
  /\ PlannerInit
  /\ BLOCK_BUFFER_SIZE = 4
  /\ ~stepper_isr_enabled
  /\ \E raw_lo_lt_hi \in BOOLEAN : ThermalInit(raw_lo_lt_hi)
  /\ HostInit

\* The heater loop against sensors that may read anything, up to the entry
\* of kill().
HeaterNext ==
  \/ \E celsius \in HotendTargets : setTargetHotend(celsius)
  \/ \E celsius \in BedTargets : setTargetBed(celsius)
  \/ manage_heater
  \/ \E hotend_sample \in HotendSamples, bed_sample \in BedSamples :
       Temperature_isr(hotend_sample, bed_sample)

HeaterSpec == HeaterInit /\ [][HeaterNext]_vars

\* kill(), entered from _temp_error or by M112
Kill == KillDisable \/ KillCli \/ KillLoop

\* The hot end's loop over time, with the watchdog, against a hot end that
\* stays at MID_TEMP or fails; the bed is left off.
WatchNext ==
  \/ \E celsius \in HotendTargets : setTargetHotend(celsius)
  \/ manage_heater
  \/ M112
  \/ Kill
  \/ \E hotend_sample \in StuckHotendSamples, bed_sample \in StuckBedSamples :
       Temperature_isr(hotend_sample, bed_sample)
  \/ Tick
  \/ WatchdogTick

WatchSpec == HeaterInit /\ [][WatchNext]_vars

\* The processor keeps running the foreground and its interrupts, and time
\* passes: the watchdog counts, kill() goes on, manage_heater is called again
\* and again and the timer interrupt keeps sampling.
WatchFairSpec ==
  /\ WatchSpec
  /\ WF_vars(WatchdogTick)
  /\ WF_vars(Kill)
  /\ WF_vars(manage_heater)
  /\ WF_vars(\E hotend_sample \in StuckHotendSamples, bed_sample \in StuckBedSamples :
               Temperature_isr(hotend_sample, bed_sample))

\* ------------------------------------------------------------------------
\* Properties of the heater loop
\* ------------------------------------------------------------------------

\* C11: whenever a heater's target is 0, its duty is 0 and its output pin is
\* low, in every reachable state: for the hot end soft_pwm_amount = 0 and
\* HEATER_0 low, for the bed is_bed_heating clear and HEATER_BED low.
C11_ZeroTargetMeansOff ==
  /\ target_temperature = 0 => soft_pwm_amount = 0 /\ ~heater_0
  /\ target_temperature_bed = 0 => ~is_bed_heating /\ ~heater_bed

\* C12: the foreground reads the raw pair only when one is published, the
\* pair it finds is the pair one set_adc call wrote, and while the ready flag
\* is clear the pair published last is the pair the foreground read: the
\* clearing of the flag never covers a later publication.
C12_CoherentPair ==
  /\ pc = "critsec" => ready_
  /\ ready_ => <<raw_adc_hotend, raw_adc_bed>> = adc_last
  /\ (~ready_ /\ adc_last # <<NONE, NONE>>) => temperature_raw = adc_last

\* a pair was read and a different one has been published since, flagged ready
C12_Witness ==
  /\ ready_
  /\ pc = "update"
  /\ temperature_raw[2] \in BedSamples
  /\ temperature_raw # adc_last

\* C13: after _temp_error every heater output is off and stays off, Running
\* is false, and the machine sits in a loop that never resets the watchdog,
\* so that the watchdog resets the board.
C13_FatalErrorEndsInReset ==
  /\ [](killed /\ pc = "kill_loop" =>
          /\ ~Running
          /\ soft_pwm_amount = 0 /\ ~heater_0
          /\ ~is_bed_heating /\ ~heater_bed)
  /\ killed ~> board_reset

\* C14: with the hot end's target at 200 C and its temperature staying at
\* 180 C, repeated manage_heater calls end in a fatal thermal error.
C14_StuckBelowTargetIsFatal ==
  (/\ <>[](target_temperature = 200 /\ current_temperature = MID_TEMP)
   /\ []<>(pc = "idle")
   /\ []<>(pc = "update")) => <>killed

\* C15: a manage_heater call that finds the hot end's watch period over and
\* the temperature below watch_target_temp raises the fatal error.
C15_WatchExpiryIsFatal ==
  [][(/\ pc = "update"
      /\ pc' # "update"
      /\ watch_heater_next_ms # 0
      /\ ELAPSED(ms, watch_heater_next_ms)
      /\ adc_to_temperature(clamp_adc(temperature_raw[1])) < watch_target_temp)
     => killed']_vars

JobMoves ==
  { Move(5 * MM, 0, 0, 0, 60 * SU, FALSE),
    Move(10 * MM, 0, 0, 0, 60 * SU, FALSE),
    Move(10 * MM, 1 * MM, 0, 0, 60 * SU, FALSE),
    Move(0, 0, 0, 2 * MM, 5 * SU, FALSE),
    Move(0, 0, 0, 0, 5 * SU, FALSE),
    Move(0, 0, 0, 1 * MM, 5 * SU, TRUE) }

\* a build whose ring holds every block of the job, before the first move
\* has enabled the stepper interrupt
JobInit == Init /\ BLOCK_BUFFER_SIZE = 8 /\ ~stepper_isr_enabled

\* The job's foreground and the stepper interrupt, taken between the calls
\* of _buffer_line and in its wait loop.  The ring never fills, and with
\* these moves the forward pass never lowers an entry speed: WaitFull and
\* ForwardStore are never enabled.
JobNext ==
  \/ \E m \in JobMoves : BufferLine(m)
  \/ WaitDone
  \/ Build
  \/ Publish
  \/ ReverseStart
  \/ ReverseLoop
  \/ ReverseStore
  \/ ForwardStart
  \/ ForwardLoop
  \/ TrapezoidsStart
  \/ TrapezoidLoop
  \/ TrapezoidStore
  \/ WakeUp
  \/ pc \in {"idle", "wait"} /\ Stepper

JobSpec == JobInit /\ [][JobNext]_vars

\* the moves before an emergency stop
StopMoves ==
  { Move(1 * MM, 0, 0, 0, 60 * SU, FALSE),
    Move(2 * MM, 0, 0, 0, 60 * SU, FALSE),
    Move(12 * MM, 0, 0, 0, 60 * SU, FALSE) }

\* A print with M112 between two moves; cli() stops the stepper interrupt.
StopNext ==
  \/ \E m \in StopMoves : BufferLine(m)
  \/ WaitFull
  \/ Planning
  \/ interrupts /\ Stepper
  \/ M112
  \/ Kill

StopSpec == Init /\ [][StopNext]_vars

\* ------------------------------------------------------------------------
\* Properties of the print job
\* ------------------------------------------------------------------------

\* C17: once an emergency stop (M112, kill) has run, Running is false, every
\* heater is off, the planner is flushed (tail = head) and the stepper
\* interrupt is stopped.
C17_EmergencyStop ==
  pc = "kill_loop" =>
    /\ ~Running
    /\ target_temperature = 0 /\ soft_pwm_amount = 0 /\ ~heater_0
    /\ target_temperature_bed = 0 /\ ~is_bed_heating /\ ~heater_bed
    /\ block_buffer_tail = block_buffer_head
    /\ ~interrupts

\* C18: every step of a _buffer_line call whose move has fewer than
\* MIN_STEPS_PER_SEGMENT steps leaves head and tail, the number of published
\* blocks, every queued block, previous_speed, previous_nominal_speed and
\* position[] unchanged.
C18_DroppedMoveFrame ==
  [][LET call == IF pc = "idle" THEN mv' ELSE mv
         from == IF pc = "idle" THEN position' ELSE position
         dropped == StepEventCount(BlockSteps(StepDeltas(from, call)))
                      < MIN_STEPS_PER_SEGMENT
         step == \/ pc = "idle" /\ pc' = "wait"
                 \/ pc = "wait" /\ pc' = "build"
                 \/ pc = "build" /\ pc' # "build"
     IN  (step /\ dropped) =>
           /\ UNCHANGED <<block_buffer_head, block_buffer_tail, published>>
           /\ \A i \in Slots : InRing(i) => block_buffer'[i] = block_buffer[i]
           /\ UNCHANGED <<previous_speed, previous_nominal_speed>>
           /\ position' = position]_vars

\* C18, amended: as above, but position[E_AXIS] becomes the E target when
\* the cold-extrusion check cancels the extrusion of the move; the X, Y and
\* Z positions are unchanged, and the call returns without a block.
C18_DroppedMoveFrameButE ==
  [][LET call == IF pc = "idle" THEN mv' ELSE mv
         from == IF pc = "idle" THEN position' ELSE position
         dropped == StepEventCount(BlockSteps(StepDeltas(from, call)))
                      < MIN_STEPS_PER_SEGMENT
         step == \/ pc = "idle" /\ pc' = "wait"
                 \/ pc = "wait" /\ pc' = "build"
                 \/ pc = "build" /\ pc' # "build"
         cancelled == /\ pc = "idle"
                      /\ call.cold
                      /\ TargetSteps(call)[E_AXIS] # position[E_AXIS]
     IN  (step /\ dropped) =>
           /\ UNCHANGED <<block_buffer_head, block_buffer_tail, published>>
           /\ \A i \in Slots : InRing(i) => block_buffer'[i] = block_buffer[i]
           /\ UNCHANGED <<previous_speed, previous_nominal_speed>>
           /\ \A i \in {X_AXIS, Y_AXIS, Z_AXIS} : position'[i] = position[i]
           /\ position'[E_AXIS] =
                IF cancelled THEN TargetSteps(call)[E_AXIS] ELSE position[E_AXIS]
           /\ pc = "build" => pc' = "idle"]_vars

\* a dropped call has returned behind two queued blocks, and a cancelled
\* extrusion has moved position[E_AXIS]
C18_Witness ==
  /\ pc = "idle"
  /\ mv = NoMove
  /\ movesplanned = 2
  /\ position = TargetSteps(Move(0, 0, 0, 1 * MM, 0, FALSE))
  /\ previous_nominal_speed > 0

\* C19: when _buffer_line limits the junction of the previous and the new
\* block, the jerk of every axis between the exit velocity and the entry
\* velocity, both scaled by the final v_factor, is at most max_jerk of the
\* axis (a coasting axis: the difference; a reversing axis: the larger
\* magnitude).  A Y move at 60 mm/s after an X move at 60 mm/s gets the
\* junction speed 10 mm/s, and an E move at 5 mm/s reversing an E move at
\* 5 mm/s gets 5 mm/s.
C19_JunctionJerkBounded ==
  (pc = "build" /\ ~IsDropped(position, mv)) =>
    LET r == BuildBlock(block_buffer[block_buffer_head], position, previous_speed,
                        previous_nominal_speed, previous_safe_speed, movesplanned,
                        stepper_isr_enabled, mv)
        prev_larger == previous_nominal_speed > r.nominal_speed
        ssf == IF prev_larger THEN <<r.nominal_speed, previous_nominal_speed>>
               ELSE <<previous_nominal_speed, r.nominal_speed>>
        vf == JunctionFactorFrom(X_AXIS, previous_speed, r.speed, prev_larger, ssf,
                                 FACTOR_ONE, FALSE)
        limited == vf <= FACTOR_ONE
        v_exit(i) == JunctionExit(previous_speed, prev_larger, ssf, vf, limited, i)
        v_entry(i) == JunctionEntry(r.speed, vf, limited, i)
        coasting(i) == v_exit(i) * v_entry(i) > 0
        jerk(i) == IF coasting(i) THEN Abs(v_exit(i) - v_entry(i))
                   ELSE Max(Abs(v_exit(i)), Abs(v_entry(i)))
    IN  /\ (movesplanned > 1 /\ previous_nominal_speed > 0) =>
             \A i \in XYZE : jerk(i) <= max_jerk[i]
        /\ (/\ previous_speed = <<60 * SU, 0, 0, 0>>
            /\ r.speed = <<0, 60 * SU, 0, 0>>) => r.block.max_entry_speed = 10 * SU
        /\ (/\ previous_speed = <<0, 0, 0, 5 * SU>>
            /\ r.speed = <<0, 0, 0, -(5 * SU)>>) => r.block.max_entry_speed = 5 * SU

\* the right-angle turn is about to be planned behind two queued blocks
C19_Witness ==
  /\ pc = "build"
  /\ movesplanned > 1
  /\ previous_speed = <<60 * SU, 0, 0, 0>>
  /\ position = TargetSteps(Move(10 * MM, 0, 0, 0, 0, FALSE))
  /\ mv = Move(10 * MM, 1 * MM, 0, 0, 60 * SU, FALSE)

\* C20: after the moves to X = 5 mm and to X = 10 mm at 60 mm/s are planned
\* back to back on an empty planner, the second block's entry_speed is its
\* nominal_speed, 60 mm/s, and the first block's trapezoid ends at the rate
\* of the second block's entry speed.
C20_CollinearJunctionAtNominal ==
  (/\ pc = "idle"
   /\ published = 2
   /\ retired = 0
   /\ current_block = NONE
   /\ block_buffer[0].steps = <<5 * axis_steps_per_mm[X_AXIS], 0, 0, 0>>
   /\ block_buffer[1].steps = <<5 * axis_steps_per_mm[X_AXIS], 0, 0, 0>>
   /\ block_buffer[0].nominal_speed = 60 * SU
   /\ block_buffer[1].nominal_speed = 60 * SU
   /\ position[X_AXIS] = 10 * axis_steps_per_mm[X_AXIS]) =>
    /\ block_buffer[1].entry_speed = block_buffer[1].nominal_speed
    /\ block_buffer[0].final_rate = TrapezoidInitialRate(block_buffer[1].entry_speed)

\* ------------------------------------------------------------------------
\* Moves faster than the axes allow
\* ------------------------------------------------------------------------

\* The moves (absolute targets):
\*   X = 10 mm at 60 mm/s             within every limit
\*   Z = 1 mm at 60 mm/s              Z is limited to 5 mm/s
\*   X = 12 mm, Z = 1 mm at 400 mm/s  X and Z are both over their limits
\*   X = 1 mm, E = 10 mm at 60 mm/s   the extruder is over its limit
FeedMoves ==
  { Move(10 * MM, 0, 0, 0, 60 * SU, FALSE),
    Move(0, 0, 1 * MM, 0, 60 * SU, FALSE),
    Move(12 * MM, 0, 1 * MM, 0, 400 * SU, FALSE),
    Move(1 * MM, 0, 0, 10 * MM, 60 * SU, FALSE) }

\* after setup(): stepper.init() has enabled the stepper interrupt
FeedInit == Init /\ BLOCK_BUFFER_SIZE = 8 /\ stepper_isr_enabled

\* The ring never fills and no entry speed is lowered by the forward pass:
\* WaitFull and ForwardStore are never enabled.
FeedNext ==
  \/ \E m \in FeedMoves : BufferLine(m)
  \/ WaitDone
  \/ Build
  \/ Publish
  \/ ReverseStart
  \/ ReverseLoop
  \/ ReverseStore
  \/ ForwardStart
  \/ ForwardLoop
  \/ TrapezoidsStart
  \/ TrapezoidLoop
  \/ TrapezoidStore
  \/ WakeUp
  \/ pc \in {"idle", "wait"} /\ Stepper

FeedSpec == FeedInit /\ [][FeedNext]_vars

\* C21: when _buffer_line has built a block, the speed of every axis after
\* the speed_factor correction is at most max_feedrate_mm_s of the axis, and
\* the axis speeds, nominal_speed and nominal_rate are all scaled by one
\* factor: the smallest max_feedrate_mm_s[k] / |speed of k| over the axes k
\* that were over their limit (no scaling when none was).
C21_AxisSpeedsWithinFeedrate ==
  pc = "publish" =>
    LET b == block_buffer[block_buffer_head]
        d == StepDeltas(position, mv)
        fr == ClampFeedrate(mv.fr_mm_s, b.steps[E_AXIS])
        speed0 == AxisSpeeds(DeltaMM(d), fr, b.millimeters)
        rate0 == ToU24(CEILDIV(b.step_event_count * fr * (MM \div SU), b.millimeters))
        over == {i \in XYZE : Abs(speed0[i]) > max_feedrate_mm_s[i]}
        smallest(k) == \A i \in over : max_feedrate_mm_s[k] * Abs(speed0[i])
                                         <= max_feedrate_mm_s[i] * Abs(speed0[k])
    IN  /\ \A i \in XYZE : Abs(previous_speed[i]) <= max_feedrate_mm_s[i]
        /\ previous_nominal_speed = b.nominal_speed
        /\ IF over = {}
           THEN /\ previous_speed = speed0
                /\ b.nominal_speed = fr
                /\ b.nominal_rate = rate0
           ELSE \E k \in over :
                  /\ smallest(k)
                  /\ \A i \in XYZE : previous_speed[i] =
                       Trunc(speed0[i] * max_feedrate_mm_s[k], Abs(speed0[k]))
                  /\ b.nominal_speed = (fr * max_feedrate_mm_s[k]) \div Abs(speed0[k])
                  /\ b.nominal_rate = (rate0 * max_feedrate_mm_s[k]) \div Abs(speed0[k])

\* a block is built for the move that is over the X and the Z limit, and
\* the Z limit decided
C21_Witness ==
  /\ pc = "publish"
  /\ mv = Move(12 * MM, 0, 1 * MM, 0, 400 * SU, FALSE)
  /\ position = <<0, 0, 0, 0>>
  /\ previous_speed[Z_AXIS] = max_feedrate_mm_s[Z_AXIS]
  /\ previous_speed[X_AXIS] > 0
  /\ block_buffer[block_buffer_head].nominal_speed < 400 * SU

\* C22: with the stepper interrupt enabled as setup() leaves it, the move
\* from the origin to X = 10 mm at 60 mm/s on an empty planner gives one
\* block: steps (800,0,0,0), step_event_count 800, entry speed 0, trapezoid
\* starting and ending at the minimal step rate (exit speed 0), and a
\* plateau: accelerate_until < decelerate_after and
\* accelerate_until + (800 - decelerate_after) < 800.
C22_SingleMoveBlock ==
  (/\ pc = "idle"
   /\ published = 1
   /\ position = TargetSteps(Move(10 * MM, 0, 0, 0, 0, FALSE))) =>
    LET b == block_buffer[0]
    IN  /\ block_buffer_head = 1
        /\ b.steps = <<800, 0, 0, 0>>
        /\ b.step_event_count = 800
        /\ b.millimeters = 10 * MM
        /\ b.nominal_speed = 60 * SU
        /\ b.entry_speed = 0
        /\ b.initial_rate = MINIMAL_STEP_RATE
        /\ b.final_rate = MINIMAL_STEP_RATE
        /\ b.accelerate_until < b.decelerate_after
        /\ b.accelerate_until + (800 - b.decelerate_after) < 800

\* the single move has been planned and is still queued
C22_Witness ==
  /\ pc = "idle"
  /\ published = 1
  /\ retired = 0
  /\ current_block = NONE
  /\ position = TargetSteps(Move(10 * MM, 0, 0, 0, 0, FALSE))
  /\ block_buffer[0].decelerate_after > 0

\* ------------------------------------------------------------------------
\* The serial line parser: get_serial_commands (Marlin_main.cpp:587-712)
\* ------------------------------------------------------------------------

\* the largest line number a host sends
MaxLineNo == 3

LineNumbers == 0 .. MaxLineNo

\* Marlin_main.cpp:317 (BUFSIZE commands are queued at most)
BUFSIZE == 4

\* A complete line as the parser sees it:
\*   lead   the number after an N that starts the line, or NONE
\*   m110   the line contains "M110"
\*   param  the number after a second N, behind M110, or NONE
\*   star   no '*', a '*' followed by the XOR of the line, or by anything else
\* A line is never empty, and never one of M108, M112, M410.
SerialLines ==
  { [lead |-> l, m110 |-> m, param |-> q, star |-> c, none |-> FALSE] :
      l \in LineNumbers \cup {NONE}, m \in BOOLEAN, q \in {NONE, 1, 3},
      c \in {"none", "match", "mismatch"} }

\* gcode_N = strtol(npos + 1): the number after the N that npos points at
\* (614-624)
LineNumberOf(line) == IF line.m110 /\ line.param # NONE THEN line.param ELSE line.lead

\* what gcode_line_error writes, with FlushSerialRequestResend unless
\* doFlush is false (572-579, 3228-3234)
gcode_line_error(doFlush) ==
  [error |-> TRUE, resend |-> IF doFlush THEN gcode_LastN + 1 ELSE NONE]

\* the verdict on a complete line: "ok", or the error it is rejected with
\* (612-652)
LineVerdict(line) ==
  IF line.lead # NONE
  THEN IF LineNumberOf(line) # gcode_LastN + 1 /\ ~line.m110 THEN "line_no"
       ELSE IF line.star = "mismatch" THEN "checksum_mismatch"
       ELSE IF line.star = "none" THEN "no_checksum"
       ELSE "ok"
  ELSE IF line.star # "none" THEN "no_linenumber_with_checksum"
       ELSE "ok"

\* One complete line handled by get_serial_commands, the queue not full.
\* The queue keeps of a command what its execution uses: the N parameter of
\* an M110, or NONE.
get_serial_commands(line) ==
  /\ pc = "idle"
  /\ Len(command_queue) < BUFSIZE
  /\ ~line.m110 => line.param = NONE
  /\ serial_in' = line
  /\ LET verdict == LineVerdict(line)
     IN  IF verdict = "ok"
         THEN /\ gcode_LastN' = IF line.lead # NONE THEN LineNumberOf(line)
                                ELSE gcode_LastN
              /\ command_queue' = Append(command_queue,
                                         IF line.m110 THEN line.param ELSE NONE)
              /\ serial_out' = [error |-> FALSE, resend |-> NONE]
         ELSE /\ serial_out' = gcode_line_error(verdict # "no_linenumber_with_checksum")
              /\ UNCHANGED <<gcode_LastN, command_queue>>
  /\ UNCHANGED <<motion_vars, thermal_vars, runaway_vars, set_call, pwm_vars, ledger_vars, skipped>>

\* process_next_command on the oldest command and its removal from the
\* queue (3868-3898); gcode_M110 sets the line number (2111-2113)
process_next_command ==
  /\ pc = "idle"
  /\ command_queue # <<>>
  /\ gcode_LastN' = IF Head(command_queue) # NONE THEN Head(command_queue)
                    ELSE gcode_LastN
  /\ command_queue' = Tail(command_queue)
  /\ serial_in' = NoLine
  /\ serial_out' = [error |-> FALSE, resend |-> NONE]
  /\ UNCHANGED <<motion_vars, thermal_vars, runaway_vars, set_call, pwm_vars, ledger_vars, skipped>>

SerialNext ==
  \/ \E line \in SerialLines : get_serial_commands(line)
  \/ process_next_command

SerialInit == Init /\ BLOCK_BUFFER_SIZE = 4 /\ stepper_isr_enabled

SerialSpec == SerialInit /\ [][SerialNext]_vars

LROUND_floor(n, d) == n \div d

\* LROUND(n / d) for n >= 0 and d > 0: halves round up
LROUND(n, d) == (2 * n + d) \div (2 * d)

\* the positions a host sets, in length units (1 mm = MM): the origin, and a
\* position that is 1.4 X steps, 0.6 Y steps and exactly 0.5 E steps
SetPositions == { <<0, 0, 0, 0>>, <<7, 3, 0, 2>> }

\* the values the single-axis setter is called with: 0.6 X steps, 0.5 E steps
SetAxisValues == { <<X_AXIS, 3>>, <<E_AXIS, 2>> }

\* _set_position_mm(a, b, c, e)                               (5396-5416)
set_position_mm(p) ==
  /\ pc = "idle"
  /\ position' = [i \in XYZE |-> ToU24(LROUND(p[i] * axis_steps_per_mm[i], MM))]
  /\ previous_nominal_speed' = 0
  /\ previous_speed' = [i \in XYZE |-> 0]
  /\ set_call' = [kind |-> "all", axis |-> NONE, p |-> p]
  /\ set_steps' = position'
  /\ published_steps' = <<0, 0, 0, 0>>
  /\ UNCHANGED <<serial_vars, runaway_vars, pwm_vars, skipped, thermal_vars, BLOCK_BUFFER_SIZE,
                 block_buffer, ring_vars, previous_safe_speed, stepper_isr_enabled,
                 current_block, pc, mv, loc, waited, ghost_vars>>

\* set_position_mm(axis, v)                                   (5452-5465)
set_position_mm_axis(axis, v) ==
  /\ pc = "idle"
  /\ position' = [position EXCEPT
                    ![axis] = ToU24(LROUND(v * axis_steps_per_mm[axis], MM))]
  /\ previous_speed' = [previous_speed EXCEPT ![axis] = 0]
  /\ set_call' = [kind |-> "axis", axis |-> axis, p |-> <<v>>]
  /\ set_steps' = [set_steps EXCEPT ![axis] = position'[axis]]
  /\ published_steps' = [published_steps EXCEPT ![axis] = 0]
  /\ UNCHANGED <<serial_vars, runaway_vars, pwm_vars, skipped, thermal_vars, BLOCK_BUFFER_SIZE,
                 block_buffer, ring_vars, previous_nominal_speed, previous_safe_speed,
                 stepper_isr_enabled, current_block, pc, mv, loc, waited, ghost_vars>>

\* moves between two settings of the position
PositionMoves ==
  { Move(5 * MM, 0, 0, 0, 60 * SU, FALSE),
    Move(10 * MM, 0, 0, 0, 60 * SU, FALSE) }

PositionInit == Init /\ BLOCK_BUFFER_SIZE = 8 /\ stepper_isr_enabled

\* G92 and moves, the stepper interrupt not yet serving the queue; the ring
\* never fills and the forward pass lowers no entry speed
PositionNext ==
  \/ \E p \in SetPositions : set_position_mm(p)
  \/ \E a \in SetAxisValues : set_position_mm_axis(a[1], a[2])
  \/ \E m \in PositionMoves : BufferLine(m)
  \/ WaitDone
  \/ Build
  \/ Publish
  \/ ReverseStart
  \/ ReverseLoop
  \/ ReverseStore
  \/ ForwardStart
  \/ ForwardLoop
  \/ TrapezoidsStart
  \/ TrapezoidLoop
  \/ TrapezoidStore
  \/ WakeUp

PositionSpec == PositionInit /\ [][PositionNext]_vars

\* C24: after set_position_mm(p), position[i] is p[i] * axis_steps_per_mm[i]
\* rounded to the nearest step for every axis, previous_speed is all zero and
\* previous_nominal_speed is 0, and the next block built is flagged
\* START_FROM_FULL_HALT; after set_position_mm(axis, v), position[axis] is
\* the rounded v * axis_steps_per_mm[axis] and previous_speed[axis] is 0.
C24_SetPositionRoundTrip ==
  LET nearest(n, x, i) == /\ (2 * n - 1) * MM <= 2 * x * axis_steps_per_mm[i]
                          /\ 2 * x * axis_steps_per_mm[i] < (2 * n + 1) * MM
  IN  /\ (set_call.kind = "all" /\ pc = "idle") =>
           /\ \A i \in XYZE : nearest(position[i], set_call.p[i], i)
           /\ previous_speed = <<0, 0, 0, 0>>
           /\ previous_nominal_speed = 0
      /\ (set_call.kind = "all" /\ pc = "publish") =>
           START_FROM_FULL_HALT \in block_buffer[block_buffer_head].flag
      /\ (set_call.kind = "axis" /\ pc = "idle") =>
           /\ nearest(position[set_call.axis], set_call.p[1], set_call.axis)
           /\ previous_speed[set_call.axis] = 0

\* a block is built right after the position with fractions of a step was
\* set behind two queued moves
C24_Witness ==
  /\ set_call = [kind |-> "all", axis |-> NONE, p |-> <<7, 3, 0, 2>>]
  /\ pc = "publish"
  /\ movesplanned > 1
  /\ position = <<1, 1, 0, 1>>

\* ------------------------------------------------------------------------
\* Properties of the look-ahead passes
\* ------------------------------------------------------------------------

\* C25: reverse_pass enters its loop only with more than three blocks
\* queued, and no step of the loop changes entry_speed or the flags of the
\* block at tail or of the block after it, tail being block_buffer_tail at
\* the moment of the write, whatever the stepper interrupt has retired since
\* the pass began.
C25_ReversePassSparesTail ==
  [][/\ (pc = "reverse" /\ pc' = "reverse_loop") => movesplanned > 3
     /\ (pc \in {"reverse_loop", "reverse_store"} /\ <<pc, loc>>' # <<pc, loc>>) =>
          \A i \in {block_buffer_tail, next_block_index(block_buffer_tail, BLOCK_BUFFER_SIZE)} :
            /\ block_buffer'[i].entry_speed = block_buffer[i].entry_speed
            /\ block_buffer'[i].flag = block_buffer[i].flag]_vars

\* Collinear moves at 150 mm/s, each long enough to reach its nominal speed
\* (NOMINAL_LENGTH), so that the reverse pass raises an entry speed above
\* MINIMAL_STEP_RATE; and a short move at the end
CruiseMoves ==
  { Move(12 * MM, 0, 0, 0, 150 * SU, FALSE),
    Move(24 * MM, 0, 0, 0, 150 * SU, FALSE),
    Move(36 * MM, 0, 0, 0, 150 * SU, FALSE),
    Move(48 * MM, 0, 0, 0, 150 * SU, FALSE),
    Move(49 * MM, 0, 0, 0, 150 * SU, FALSE) }

CruiseInit == Init /\ BLOCK_BUFFER_SIZE = 8

\* The planner with the stepper interrupt served only between the calls of
\* _buffer_line and in its wait loop: no interrupt during recalculate().
CruiseNext ==
  \/ \E m \in CruiseMoves : BufferLine(m)
  \/ WaitDone
  \/ Build
  \/ Publish
  \/ ReverseStart
  \/ ReverseLoop
  \/ ReverseStore
  \/ ForwardStart
  \/ ForwardLoop
  \/ ForwardStore
  \/ TrapezoidsStart
  \/ TrapezoidLoop
  \/ TrapezoidStore
  \/ WakeUp
  \/ pc \in {"idle", "wait"} /\ Stepper

CruiseSpec == CruiseInit /\ [][CruiseNext]_vars

\* C26: when recalculate() has completed without an interrupt in between,
\* every adjacent pair (B, C) of the ring with B not busy has B.final_rate =
\* C.initial_rate = max(ceil(C.entry_speed), MINIMAL_STEP_RATE), and the
\* newest block has final_rate = MINIMAL_STEP_RATE.
C26_AdjacentRatesAgree ==
  pc = "idle" =>
    /\ \A i \in Slots :
         LET n == next_block_index(i, BLOCK_BUFFER_SIZE)
         IN  (InRing(i) /\ InRing(n) /\ ~TEST(i, BUSY)) =>
               /\ block_buffer[i].final_rate = block_buffer[n].initial_rate
               /\ block_buffer[n].initial_rate =
                    Max(CEILDIV(block_buffer[n].entry_speed, SU), MINIMAL_STEP_RATE)
    /\ movesplanned > 0 =>
         block_buffer[prev_block_index(block_buffer_head, BLOCK_BUFFER_SIZE)].final_rate
           = MINIMAL_STEP_RATE

\* three blocks are queued after a recalculate(), and the middle one is
\* entered faster than the minimal step rate
C26_Witness ==
  /\ pc = "idle"
  /\ movesplanned = 3
  /\ ~TEST(block_buffer_tail, BUSY)
  /\ \E i \in Slots :
       /\ InRing(i)
       /\ InRing(next_block_index(i, BLOCK_BUFFER_SIZE))
       /\ block_buffer[i].final_rate > MINIMAL_STEP_RATE

\* C27: a step of the forward pass changes the entry_speed of current only,
\* and only when previous lacks NOMINAL_LENGTH and previous.entry_speed <
\* current.entry_speed; the new value is min(current.entry_speed,
\* sqrt(previous.entry_speed^2 + 2 * previous.acceleration *
\* previous.millimeters)) and is lower than the old one; RECALCULATE is set
\* on current exactly when the value changed; the block at tail is never
\* modified.
C27_ForwardPassKernel ==
  [][LET previous == loc.block[2]
         current == loc.block[3]
         p == block_buffer[previous]
         c == block_buffer[current]
         reach == SQRT(sq(p.entry_speed)
                         + 2 * p.acceleration * p.millimeters * (sq(SU) \div MM))
         changed == \E i \in Slots :
                      block_buffer'[i].entry_speed # block_buffer[i].entry_speed
     IN  /\ (pc = "forward_loop" /\ <<pc, loc>>' # <<pc, loc>>) =>
              /\ \A i \in Slots :
                   /\ block_buffer'[i].flag = block_buffer[i].flag
                   /\ block_buffer'[i].entry_speed # block_buffer[i].entry_speed =>
                        /\ i = current
                        /\ i # block_buffer_tail
                        /\ previous # NONE
                        /\ NOMINAL_LENGTH \notin p.flag
                        /\ p.entry_speed < c.entry_speed
                        /\ block_buffer'[i].entry_speed = Min(c.entry_speed, reach)
                        /\ block_buffer'[i].entry_speed < c.entry_speed
              /\ changed <=> pc' = "forward_store"
         /\ (pc = "forward_store" /\ <<pc, loc>>' # <<pc, loc>>) =>
              /\ loc.store # block_buffer_tail
              /\ RECALCULATE \in block_buffer'[loc.store].flag
              /\ \A i \in Slots :
                   /\ block_buffer'[i].entry_speed = block_buffer[i].entry_speed
                   /\ i # loc.store => block_buffer'[i].flag = block_buffer[i].flag]_vars

\* C28: the reverse pass walks backward from the block before head.  At a
\* block flagged START_FROM_FULL_HALT it ends without a write, so that block
\* and every older one keep entry_speed and flags; a visited block whose
\* entry_speed differs from max_entry_speed gets entry_speed =
\* max_entry_speed if it has NOMINAL_LENGTH or max_entry_speed <=
\* next.entry_speed, else min(max_entry_speed, sqrt(next.entry_speed^2 +
\* 2 * acceleration * millimeters)), and then RECALCULATE; no other block
\* and no other field is written.
C28_ReversePassKernel ==
  [][LET next == loc.blocknr
         blocknr == prev_block_index(next, BLOCK_BUFFER_SIZE)
         c == block_buffer[blocknr]
         n == block_buffer[next]
         reach == SQRT(sq(n.entry_speed)
                         + 2 * c.acceleration * c.millimeters * (sq(SU) \div MM))
         value == IF NOMINAL_LENGTH \in c.flag \/ c.max_entry_speed <= n.entry_speed
                  THEN c.max_entry_speed
                  ELSE Min(c.max_entry_speed, reach)
     IN  /\ (pc = "reverse" /\ pc' = "reverse_loop") =>
              loc'.blocknr = prev_block_index(block_buffer_head, BLOCK_BUFFER_SIZE)
         /\ (pc = "reverse_loop" /\ <<pc, loc>>' # <<pc, loc>>) =>
              /\ \A i \in Slots :
                   /\ block_buffer'[i].flag = block_buffer[i].flag
                   /\ i # blocknr => block_buffer'[i].entry_speed = block_buffer[i].entry_speed
              /\ IF START_FROM_FULL_HALT \in c.flag
                 THEN /\ block_buffer'[blocknr].entry_speed = c.entry_speed
                      /\ pc' = "forward"
                 ELSE IF c.entry_speed # c.max_entry_speed
                 THEN /\ block_buffer'[blocknr].entry_speed = value
                      /\ pc' = "reverse_store"
                      /\ loc'.store = blocknr
                 ELSE /\ block_buffer'[blocknr].entry_speed = c.entry_speed
                      /\ pc' # "reverse_store"
         /\ (pc = "reverse_store" /\ <<pc, loc>>' # <<pc, loc>>) =>
              /\ RECALCULATE \in block_buffer'[loc.store].flag
              /\ \A i \in Slots :
                   /\ block_buffer'[i].entry_speed = block_buffer[i].entry_speed
                   /\ i # loc.store => block_buffer'[i].flag = block_buffer[i].flag]_vars

\* the kernel has just written an entry speed that the length of the block
\* keeps below max_entry_speed
C28_Witness ==
  /\ pc = "reverse_store"
  /\ NOMINAL_LENGTH \notin block_buffer[loc.store].flag
  /\ block_buffer[loc.store].entry_speed < block_buffer[loc.store].max_entry_speed
  /\ block_buffer[loc.store].entry_speed > 0

\* ---------------------------------------------------------------------
\* Thermal runaway protection of the hot end (thermal.cpp:487-549)
\* ---------------------------------------------------------------------

\* The period_seconds and hysteresis_degc the hot end's call passes
\* (thermal.cpp:265), the period in the unit of ms
THERMAL_PROTECTION_PERIOD == 1

THERMAL_PROTECTION_HYSTERESIS == 4

\* the hot end temperatures and the targets the machine is driven with
RunawayTemperatures == {190, 196, 200, 210}

RunawayTargets == {0, 200, 210}

\* PENDING(now, soon)
PENDING(now, soon) == now < soon

\* thermal.cpp:514-517: a changed target restarts the machine
TRRestart(state, remembered, target) ==
  IF remembered # target
  THEN IF target > 0 THEN "TRFirstHeating" ELSE "TRInactive"
  ELSE state

\* a switch whose Stable case does not wait for the timer
TRSwitch_impatient(state, timer, remembered, current, now, period_seconds, hysteresis_degc) ==
  LET stable == state = "TRStable" \/ (state = "TRFirstHeating" /\ current >= remembered)
  IN  CASE state = "TRInactive" -> [state |-> state, timer |-> timer]
        [] state = "TRFirstHeating" /\ ~stable -> [state |-> state, timer |-> timer]
        [] stable /\ current >= remembered - hysteresis_degc ->
             [state |-> "TRStable", timer |-> now + period_seconds]
        [] OTHER -> [state |-> "TRRunaway", timer |-> timer]

\* thermal.cpp:521-548: the switch with its fall-throughs, FirstHeating into
\* Stable and Stable into Runaway
TRSwitch(state, timer, remembered, current, now, period_seconds, hysteresis_degc) ==
  LET stable == state = "TRStable" \/ (state = "TRFirstHeating" /\ current >= remembered)
  IN  CASE state = "TRInactive" -> [state |-> state, timer |-> timer]
        [] state = "TRFirstHeating" /\ ~stable -> [state |-> state, timer |-> timer]
        [] stable /\ current >= remembered - hysteresis_degc ->
             [state |-> "TRStable", timer |-> now + period_seconds]
        [] stable /\ current < remembered - hysteresis_degc /\ PENDING(now, timer) ->
             [state |-> "TRStable", timer |-> timer]
        [] OTHER -> [state |-> "TRRunaway", timer |-> timer]

\* One call of thermal_runaway_protection<Manager::Hotend> with the arguments
\* of thermal.cpp:265; in TRRunaway it ends in _temp_error (204-233), whose
\* kill() does not return.
thermal_runaway_protection ==
  /\ pc = "idle"
  /\ ~board_reset
  /\ LET restarted == TRRestart(thermal_runaway_state_machine, tr_target_temperature,
                                target_temperature)
         r == TRSwitch(restarted, thermal_runaway_timer, target_temperature,
                       current_temperature, ms, THERMAL_PROTECTION_PERIOD,
                       THERMAL_PROTECTION_HYSTERESIS)
     IN  /\ tr_target_temperature' = target_temperature
         /\ thermal_runaway_state_machine' = r.state
         /\ thermal_runaway_timer' = r.timer
         /\ tr_call' = [made |-> TRUE, state |-> thermal_runaway_state_machine,
                        timer |-> thermal_runaway_timer,
                        remembered |-> tr_target_temperature,
                        current |-> current_temperature, target |-> target_temperature,
                        now |-> ms]
         /\ IF r.state = "TRRunaway"
            THEN IF ~killed
                 THEN /\ Running' = FALSE
                      /\ killed' = TRUE
                      /\ pc' = "kill"
                      /\ UNCHANGED <<watch_vars, target_temperature, target_temperature_bed,
                                     soft_pwm_amount, is_bed_heating, heater_0, heater_bed>>
                 ELSE /\ disable_all_heaters
                      /\ UNCHANGED <<Running, killed, pc>>
            ELSE UNCHANGED <<Running, killed, pc, watch_vars, target_temperature,
                             target_temperature_bed, soft_pwm_amount, is_bed_heating,
                             heater_0, heater_bed>>
  /\ UNCHANGED <<serial_vars, set_call, pwm_vars, ledger_vars, skipped, BLOCK_BUFFER_SIZE, block_buffer, ring_vars,
                 planner_vars, stepper_isr_enabled, current_block, mv, loc, waited,
                 ghost_vars, HEATER_0_RAW_LO_LT_HI, interrupts, board_reset, adc_vars,
                 current_temperature, current_temperature_bed, temperature_raw, ms, wdt>>

\* updateTemperaturesFromRawValues (thermal.cpp:357-403) with a hot end inside
\* its limits: current_temperature takes what the sensor reads
SenseHotend(celsius) ==
  /\ pc = "idle"
  /\ ~board_reset
  /\ current_temperature' = celsius
  /\ UNCHANGED <<host_vars, motion_vars, machine_vars, adc_vars, watch_vars,
                 target_temperature, target_temperature_bed, current_temperature_bed,
                 soft_pwm_amount, is_bed_heating, heater_0, heater_bed,
                 temperature_raw, ms, wdt>>

RunawayInit == Init /\ BLOCK_BUFFER_SIZE = 4 /\ ~stepper_isr_enabled

\* the runaway check called again and again while the target, the hot end
\* and the time change
RunawayNext ==
  \/ \E celsius \in RunawayTargets : setTargetHotend(celsius)
  \/ \E celsius \in RunawayTemperatures : SenseHotend(celsius)
  \/ thermal_runaway_protection
  \/ Tick
  \/ Kill

RunawaySpec == RunawayInit /\ [][RunawayNext]_vars

\* C29: a call of thermal_runaway_protection with a target other than the
\* remembered one restarts the machine (FirstHeating if target > 0, else
\* Inactive); FirstHeating becomes Stable when current >= target; Stable
\* re-arms the timer to now + period when current >= target - hysteresis,
\* stays as it is while the timer is pending, and becomes Runaway only
\* below target - hysteresis with the timer expired; Runaway, and only
\* Runaway, raises the fatal error.
C29_RunawayTransitions ==
  tr_call.made =>
    LET restarted == tr_call.remembered # tr_call.target
        s1 == IF restarted
              THEN IF tr_call.target > 0 THEN "TRFirstHeating" ELSE "TRInactive"
              ELSE tr_call.state
        s2 == IF s1 = "TRFirstHeating" /\ tr_call.current >= tr_call.target
              THEN "TRStable" ELSE s1
        near == tr_call.current >= tr_call.target - THERMAL_PROTECTION_HYSTERESIS
        expired == tr_call.now >= tr_call.timer
    IN  /\ tr_target_temperature = tr_call.target
        /\ s2 = "TRInactive" =>
             thermal_runaway_state_machine = "TRInactive" /\ ~killed
        /\ s2 = "TRFirstHeating" =>
             /\ thermal_runaway_state_machine = "TRFirstHeating"
             /\ thermal_runaway_timer = tr_call.timer
        /\ (s2 = "TRStable" /\ near) =>
             /\ thermal_runaway_state_machine = "TRStable"
             /\ thermal_runaway_timer = tr_call.now + THERMAL_PROTECTION_PERIOD
        /\ (s2 = "TRStable" /\ ~near /\ ~expired) =>
             /\ thermal_runaway_state_machine = "TRStable"
             /\ thermal_runaway_timer = tr_call.timer
        /\ (s2 = "TRStable" /\ ~near /\ expired) =>
             thermal_runaway_state_machine = "TRRunaway"
        /\ thermal_runaway_state_machine = "TRRunaway" =>
             s2 = "TRStable" /\ ~near /\ expired
        /\ thermal_runaway_state_machine = "TRRunaway" <=>
             (killed /\ ~Running /\ pc \in {"kill", "kill_delay", "kill_loop"})

\* a stable hot end fell below the hysteresis band, the timer ran out and the
\* call raised the error
C29_Witness ==
  /\ tr_call.made
  /\ tr_call.state = "TRStable"
  /\ tr_call.remembered = tr_call.target
  /\ tr_call.now >= tr_call.timer
  /\ thermal_runaway_state_machine = "TRRunaway"
  /\ killed

PwmWindow == 256

\* the duty of the hot end and the heating request of the bed manage_heater
\* leaves (thermal.cpp:295-347)
PwmDuties == { <<0, FALSE>>, <<128, TRUE>>, <<255, FALSE>> }

\* what the converter reads while the PWM is observed
PwmSamples == {2}

\* a comparison that leaves the pin low at counter = duty
new_heater_state_strict(counter, pwm) == counter < pwm

\* new_extruder_state / new_bed_state (thermal.cpp:839-840)
new_heater_state(counter, pwm) == counter <= pwm /\ pwm > 0

\* the ADC section of Temperature::isr (thermal.cpp:723-750)
AdcSection(hotend_sample, bed_sample) ==
  CASE adc_sensor_state = "initialize_hotend" ->
         /\ adc_sensor_state' = "read_hotend"
         /\ UNCHANGED <<local_raw_adc_hotend, raw_adc_hotend, raw_adc_bed, ready_, adc_last>>
    [] adc_sensor_state = "read_hotend" ->
         /\ local_raw_adc_hotend' = hotend_sample
         /\ adc_sensor_state' = "initialize_bed"
         /\ UNCHANGED <<raw_adc_hotend, raw_adc_bed, ready_, adc_last>>
    [] adc_sensor_state = "initialize_bed" ->
         /\ adc_sensor_state' = "read_bed"
         /\ UNCHANGED <<local_raw_adc_hotend, raw_adc_hotend, raw_adc_bed, ready_, adc_last>>
    [] adc_sensor_state = "read_bed" ->
         LET written == set_adc(local_raw_adc_hotend, bed_sample)
         IN  /\ raw_adc_hotend' = written.raw_adc_hotend
             /\ raw_adc_bed' = written.raw_adc_bed
             /\ ready_' = written.ready_
             /\ adc_last' = <<local_raw_adc_hotend, bed_sample>>
             /\ adc_sensor_state' = "initialize_hotend"
             /\ UNCHANGED local_raw_adc_hotend

\* One call of Temperature::isr (thermal.cpp:702-846) with pwm_counter kept.
\* skip_counter is not kept: the call is tried both as a skipped one and as
\* one that reaches the PWM section (833-846).  pwm_n and the two counts of
\* highs follow the updates made with the present duties, over windows of
\* PwmWindow updates.
Temperature_isr_pwm(hotend_sample, bed_sample) ==
  /\ interrupts
  /\ ~board_reset
  /\ AdcSection(hotend_sample, bed_sample)
  /\ \/ UNCHANGED <<heater_0, heater_bed, pwm_vars>>
     \/ LET extruder_pwm == soft_pwm_amount
            bed_pwm == IF is_bed_heating THEN 255 ELSE 0
            new_extruder_state == new_heater_state(pwm_counter, extruder_pwm)
            new_bed_state == new_heater_state(pwm_counter, bed_pwm)
            fresh == pwm_n = PwmWindow
        IN  /\ pwm_counter' = (pwm_counter + 1) % 256
            /\ heater_0' = new_extruder_state
            /\ heater_bed' = new_bed_state
            /\ pwm_n' = IF fresh THEN 1 ELSE pwm_n + 1
            /\ pwm_highs' = (IF fresh THEN 0 ELSE pwm_highs)
                              + (IF new_extruder_state THEN 1 ELSE 0)
            /\ pwm_bed_highs' = (IF fresh THEN 0 ELSE pwm_bed_highs)
                                  + (IF new_bed_state THEN 1 ELSE 0)
  /\ UNCHANGED <<serial_vars, runaway_vars, set_call, ledger_vars, skipped, motion_vars, machine_vars, watch_vars,
                 target_temperature, target_temperature_bed, current_temperature,
                 current_temperature_bed, soft_pwm_amount, is_bed_heating,
                 temperature_raw, ms, wdt>>

\* manage_heater leaving new duties (thermal.cpp:295-347); a new window of
\* updates starts
SetDuties(duty, heating) ==
  /\ pc = "idle"
  /\ ~board_reset
  /\ <<duty, heating>> # <<soft_pwm_amount, is_bed_heating>>
  /\ soft_pwm_amount' = duty
  /\ is_bed_heating' = heating
  /\ pwm_n' = 0
  /\ pwm_highs' = 0
  /\ pwm_bed_highs' = 0
  /\ UNCHANGED <<serial_vars, runaway_vars, set_call, ledger_vars, skipped, pwm_counter, motion_vars, machine_vars,
                 adc_vars, watch_vars, target_temperature, target_temperature_bed,
                 current_temperature, current_temperature_bed, heater_0, heater_bed,
                 temperature_raw, ms, wdt>>

PwmInit == Init /\ BLOCK_BUFFER_SIZE = 4 /\ ~stepper_isr_enabled

PwmNext ==
  \/ \E d \in PwmDuties : SetDuties(d[1], d[2])
  \/ \E hotend_sample \in PwmSamples, bed_sample \in PwmSamples :
       Temperature_isr_pwm(hotend_sample, bed_sample)

PwmSpec == PwmInit /\ [][PwmNext]_vars

\* C31: the PWM section keeps an 8-bit counter that wraps modulo 256 and
\* drives each heater output high exactly when counter <= duty; over 256
\* consecutive updates a duty of 0 gives no high update, a duty of 255 only
\* high updates, and the number of high updates does not decrease with the duty.
C31_HighWhileCounterAtMostDuty ==
  [][pwm_counter' # pwm_counter =>
       LET bed_pwm == IF is_bed_heating THEN 255 ELSE 0
       IN  /\ pwm_counter' = (pwm_counter + 1) % 256
           /\ heater_0' = (pwm_counter <= soft_pwm_amount)
           /\ heater_bed' = (pwm_counter <= bed_pwm)
           /\ soft_pwm_amount = 0 => pwm_highs' = 0
           /\ soft_pwm_amount = 255 => pwm_highs' = pwm_n'
           /\ pwm_n' = PwmWindow =>
                /\ pwm_highs' = (IF soft_pwm_amount = 0 THEN 0 ELSE soft_pwm_amount + 1)
                /\ pwm_bed_highs' = (IF bed_pwm = 0 THEN 0 ELSE bed_pwm + 1)]_vars

\* C31 as the code has it: an output is high exactly when counter <= duty
\* and duty > 0; the counter wraps modulo 256; over 256 consecutive updates
\* a duty of 0 gives no high update, a duty of 255 only high updates and a
\* duty d > 0 gives d + 1 of them, which does not decrease with the duty.
C31_HighWhileCounterAtMostPositiveDuty ==
  [][pwm_counter' # pwm_counter =>
       LET bed_pwm == IF is_bed_heating THEN 255 ELSE 0
       IN  /\ pwm_counter' = (pwm_counter + 1) % 256
           /\ heater_0' = (pwm_counter <= soft_pwm_amount /\ soft_pwm_amount > 0)
           /\ heater_bed' = (pwm_counter <= bed_pwm /\ bed_pwm > 0)
           /\ soft_pwm_amount = 0 => pwm_highs' = 0
           /\ soft_pwm_amount = 255 => pwm_highs' = pwm_n'
           /\ bed_pwm = 0 => pwm_bed_highs' = 0
           /\ bed_pwm = 255 => pwm_bed_highs' = pwm_n'
           /\ pwm_n' = PwmWindow =>
                /\ pwm_highs' = (IF soft_pwm_amount = 0 THEN 0 ELSE soft_pwm_amount + 1)
                /\ pwm_bed_highs' = (IF bed_pwm = 0 THEN 0 ELSE bed_pwm + 1)]_vars

\* 256 updates at a duty of 128, started while the counter was not 0
C31_Witness ==
  /\ pwm_n = PwmWindow
  /\ pwm_counter = 7
  /\ soft_pwm_amount = 128
  /\ pwm_highs = 129
  /\ pwm_bed_highs = 256

\* C32: every call of the timer ISR moves the ADC sampler one step along
\* initialize_hotend -> read_hotend -> initialize_bed -> read_bed ->
\* initialize_hotend, so that at ISR entry the state is one of these four;
\* the raw pair and the ready flag are written on the read_bed call only,
\* once, with the hot end's average taken on the read_hotend call of the
\* same cycle and the bed's of this call.
C32_AdcCycle ==
  [][/\ adc_sensor_state \in {"initialize_hotend", "read_hotend", "initialize_bed", "read_bed"}
     /\ adc_sensor_state' # adc_sensor_state =>
          /\ adc_sensor_state' =
               CASE adc_sensor_state = "initialize_hotend" -> "read_hotend"
                 [] adc_sensor_state = "read_hotend" -> "initialize_bed"
                 [] adc_sensor_state = "initialize_bed" -> "read_bed"
                 [] adc_sensor_state = "read_bed" -> "initialize_hotend"
          /\ adc_sensor_state # "read_hotend" => local_raw_adc_hotend' = local_raw_adc_hotend
          /\ adc_sensor_state # "read_bed" =>
               UNCHANGED <<raw_adc_hotend, raw_adc_bed, ready_, adc_last>>
          /\ adc_sensor_state = "read_bed" =>
               /\ ready_'
               /\ raw_adc_hotend' = local_raw_adc_hotend
               /\ adc_last' = <<raw_adc_hotend', raw_adc_bed'>>
     /\ (<<raw_adc_hotend, raw_adc_bed>>' # <<raw_adc_hotend, raw_adc_bed>> \/ (~ready_ /\ ready_')) =>
          adc_sensor_state = "read_bed" /\ adc_sensor_state' = "initialize_hotend"]_vars

\* a second cycle has published a pair that differs from the first one
C32_Witness ==
  /\ adc_sensor_state = "initialize_hotend"
  /\ ready_
  /\ <<raw_adc_hotend, raw_adc_bed>> = <<3, 2>>
  /\ temperature_raw = <<2, 2>>

\* ------------------------------------------------------------------------
\* Extrusions the cold-extrusion check cancels
\* ------------------------------------------------------------------------

\* The moves (absolute targets):
\*   X = 5 mm, E = 1 mm at 60 mm/s, cold   an extrusion cancelled on a travel
\*   E = 1 mm at 5 mm/s, cold              a cancelled extrusion without travel
\*   X = 5 mm, E = 2 mm at 60 mm/s         the same travel with a hot nozzle
\*   X = 10 mm at 60 mm/s                  a travel
ColdMoves ==
  { Move(5 * MM, 0, 0, 1 * MM, 60 * SU, TRUE),
    Move(0, 0, 0, 1 * MM, 5 * SU, TRUE),
    Move(5 * MM, 0, 0, 2 * MM, 60 * SU, FALSE),
    Move(10 * MM, 0, 0, 0, 60 * SU, FALSE) }

ColdInit == Init /\ BLOCK_BUFFER_SIZE = 8 /\ stepper_isr_enabled

\* The ring never fills and no entry speed is lowered by the forward pass.
ColdNext ==
  \/ \E m \in ColdMoves : BufferLine(m)
  \/ WaitDone
  \/ Build
  \/ Publish
  \/ ReverseStart
  \/ ReverseLoop
  \/ ReverseStore
  \/ ForwardStart
  \/ ForwardLoop
  \/ TrapezoidsStart
  \/ TrapezoidLoop
  \/ TrapezoidStore
  \/ WakeUp
  \/ pc \in {"idle", "wait"} /\ Stepper

ColdSpec == ColdInit /\ [][ColdNext]_vars

\* C33: a move that asks for extrusion while is_coldextrude() holds has
\* position[E_AXIS] set to its E target on entry, with X, Y and Z left
\* alone; the block built for it has steps[E_AXIS] = 0 and the X, Y, Z steps
\* of the requested move; no error state is entered; and when the move has
\* no X, Y, Z steps it is dropped with position[E_AXIS] at the target.
C33_ColdExtrudeCollapsesE ==
  [][/\ (pc = "idle" /\ pc' = "wait" /\ mv'.cold
           /\ TargetSteps(mv')[E_AXIS] # position[E_AXIS]) =>
          /\ position'[E_AXIS] = TargetSteps(mv')[E_AXIS]
          /\ \A i \in {X_AXIS, Y_AXIS, Z_AXIS} : position'[i] = position[i]
     /\ (pc = "build" /\ pc' = "publish" /\ mv.cold) =>
          LET b == block_buffer'[block_buffer_head]
          IN  /\ b.steps[E_AXIS] = 0
              /\ \A i \in {X_AXIS, Y_AXIS, Z_AXIS} :
                   b.steps[i] = Abs(TargetSteps(mv)[i] - position[i])
              /\ position'[E_AXIS] = TargetSteps(mv)[E_AXIS]
     /\ (pc = "publish" /\ pc' # "publish" /\ mv.cold) =>
          /\ block_buffer'[block_buffer_head].steps[E_AXIS] = 0
          /\ block_buffer'[block_buffer_head] = block_buffer[block_buffer_head]
          /\ position' = TargetSteps(mv)
     /\ (pc = "build" /\ pc' = "idle" /\ mv.cold) =>
          /\ position'[E_AXIS] = TargetSteps(mv)[E_AXIS]
          /\ \A i \in {X_AXIS, Y_AXIS, Z_AXIS} : TargetSteps(mv)[i] = position[i]
          /\ UNCHANGED <<block_buffer_head, published>>
     /\ ((pc \in {"idle", "wait", "build", "publish"} /\ (IF pc = "idle" THEN mv' ELSE mv).cold) =>
          /\ Running' /\ ~killed'
          /\ pc' \notin {"kill", "kill_delay", "kill_loop"})]_vars

\* a travel of 5 mm whose extrusion was cancelled is ready to be published
\* behind a queued block
C33_Witness ==
  /\ pc = "publish"
  /\ mv = Move(5 * MM, 0, 0, 1 * MM, 60 * SU, TRUE)
  /\ movesplanned > 0
  /\ position[X_AXIS] = TargetSteps(Move(10 * MM, 0, 0, 0, 0, FALSE))[X_AXIS]
  /\ position[E_AXIS] = TargetSteps(mv)[E_AXIS]
  /\ block_buffer[block_buffer_head].steps[E_AXIS] = 0
  /\ block_buffer[block_buffer_head].steps[X_AXIS] > 0

\* the cruise moves with the stepper interrupt free to run between any two
\* steps of the foreground; the ring of 8 never fills
RaceNext ==
  \/ \E m \in CruiseMoves : BufferLine(m)
  \/ Planning
  \/ Stepper

RaceSpec == CruiseInit /\ [][RaceNext]_vars

\* C34: when the stepper claims a block C after it has executed and retired
\* the block B before it, the final_rate B was executed with equals the
\* initial_rate C is executed with, however the interrupt interleaves with
\* the look-ahead.  (B's slot is outside the ring and keeps its trapezoid
\* until it is published again; C's trapezoid is not written once C is BUSY.)
C34_ExecutedJunctionRatesAgree ==
  [][(current_block = NONE /\ current_block' # NONE /\ retired > 0) =>
       LET c == current_block'
           b == prev_block_index(c, BLOCK_BUFFER_SIZE)
       IN  block_buffer[b].final_rate = block_buffer[c].initial_rate]_vars

\* ------------------------------------------------------------------------
\* A ring whose slots are used again
\* ------------------------------------------------------------------------

\* a build with BLOCK_BUFFER_SIZE = 2 (planner.h:132, 141): the ring holds
\* one block, and the third move is written into the slot of the first
ReuseInit ==
  /\ BLOCK_BUFFER_SIZE = 2
  /\ block_buffer = [i \in 0 .. 1 |-> ZeroBlock]
  /\ block_buffer_head = 0
  /\ block_buffer_tail = 0
  /\ position = [i \in XYZE |-> 0]
  /\ previous_speed = [i \in XYZE |-> 0]
  /\ previous_nominal_speed = 0
  /\ previous_safe_speed = 0
  /\ stepper_isr_enabled = TRUE
  /\ current_block = NONE
  /\ pc = "idle"
  /\ mv = NoMove
  /\ loc = NoLocals
  /\ waited = FALSE
  /\ published = 0
  /\ retired = 0
  /\ built = {}
  /\ trap_written = {}
  /\ pass_written = {}
  /\ busy_write = "none"
  /\ ThermalInit(TRUE)
  /\ HostInit

\* With one block in the ring the reverse pass has nothing to visit and the
\* forward pass no pair to compare.
ReuseNext ==
  \/ \E m \in Moves \cup CruiseMoves : BufferLine(m)
  \/ WaitFull
  \/ WaitDone
  \/ Build
  \/ Publish
  \/ ReverseStart
  \/ ForwardStart
  \/ ForwardLoop
  \/ TrapezoidsStart
  \/ TrapezoidLoop
  \/ TrapezoidStore
  \/ WakeUp
  \/ Stepper

ReuseSpec == ReuseInit /\ [][ReuseNext]_vars

\* C35: every block get_current_block returns was built for the move it
\* holds and has had its trapezoid written by calculate_trapezoid_for_block
\* since then, with initial_rate and final_rate at least MINIMAL_STEP_RATE:
\* the stepper gets no trapezoid left from an earlier use of the slot.
C35_ClaimedBlockHasTrapezoid ==
  [][(current_block = NONE /\ current_block' # NONE) =>
       LET b == block_buffer'[current_block']
       IN  /\ current_block' \in built
           /\ current_block' \in trap_written
           /\ RECALCULATE \notin b.flag
           /\ b.initial_rate >= MINIMAL_STEP_RATE
           /\ b.final_rate >= MINIMAL_STEP_RATE]_vars

\* the stepper holds the third block, in the slot the first block was in
C35_Witness ==
  /\ BLOCK_BUFFER_SIZE = 2
  /\ published = 3
  /\ retired = 2
  /\ current_block = 0
  /\ current_block \in trap_written

\* C36: while the foreground is outside _buffer_line, or waits in it for
\* room in the ring, no block of the ring has RECALCULATE set; so whenever
\* the ring is not empty then, get_current_block returns a block.
C36_NoRecalculateAtRest ==
  pc \in {"idle", "wait"} =>
    /\ \A i \in Slots : InRing(i) => ~TEST(i, RECALCULATE)
    /\ blocks_queued => get_current_block.block = block_buffer_tail

\* the foreground is at rest with two blocks queued, after a retirement,
\* and the stepper has not asked for the next block yet
C36_Witness ==
  /\ pc = "idle"
  /\ movesplanned = 2
  /\ retired > 0
  /\ current_block = NONE
  /\ get_current_block.block = block_buffer_tail

\* The processor keeps running: the stepper interrupt keeps polling and
\* retiring, and a _buffer_line call that has room in the ring runs to its
\* end (its loops are over the ring, which is finite).
DrainSpec ==
  /\ ReuseSpec
  /\ WF_vars(Stepper)
  /\ WF_vars(WaitDone)
  /\ []<>(pc \in {"idle", "wait"})

C38_BusyStaysSetUntilRetired ==
  [][/\ \A i \in Slots :
          (current_block = i /\ current_block' = i /\ BUSY \in block_buffer[i].flag)
            => BUSY \in block_buffer'[i].flag
     /\ (pc = "build" /\ pc' # "build") =>
          /\ ~InRing(block_buffer_head)
          /\ \A i \in Slots : i # block_buffer_head => block_buffer'[i].flag = block_buffer[i].flag]_vars


\* A job of six collinear moves at 60 mm/s: two of 1 mm, then 12 mm, 12 mm,
\* 1 mm and 1 mm.  The third block cannot be entered at its junction speed
\* (the short blocks before it do not reach it), the fourth can.
BusyJob ==
  << Move(1 * MM, 0, 0, 0, 60 * SU, FALSE),
     Move(2 * MM, 0, 0, 0, 60 * SU, FALSE),
     Move(14 * MM, 0, 0, 0, 60 * SU, FALSE),
     Move(26 * MM, 0, 0, 0, 60 * SU, FALSE),
     Move(27 * MM, 0, 0, 0, 60 * SU, FALSE),
     Move(28 * MM, 0, 0, 0, 60 * SU, FALSE) >>

\* _buffer_line called with the next move of the job (4693-4811)
BusyLine ==
  /\ pc = "idle"
  /\ published < Len(BusyJob)
  /\ pc' = "wait"
  /\ mv' = BusyJob[published + 1]
  /\ waited' = FALSE
  /\ position' = PositionAfterColdCheck(position, BusyJob[published + 1])
  /\ UNCHANGED <<host_vars, thermal_vars, BLOCK_BUFFER_SIZE, block_buffer, ring_vars, previous_speed,
                 previous_nominal_speed, previous_safe_speed, stepper_isr_enabled,
                 current_block, loc, ghost_vars>>

BusyInit == Init /\ BLOCK_BUFFER_SIZE = 8

BusyNext == BusyLine \/ Planning \/ Stepper

BusySpec == BusyInit /\ [][BusyNext]_vars


\* Moves around the drop threshold, with both directions on X and Y:
\*   X = 0.05 mm             4 steps from the origin: dropped there
\*   X = 5 mm
\*   X = 5.05 mm, Y = 0.05 mm   4 steps on each axis after the one before
\*   X = 2 mm, Y = 1 mm      X backwards
LedgerMoves ==
  { Move(MM \div 20, 0, 0, 0, 60 * SU, FALSE),
    Move(5 * MM, 0, 0, 0, 60 * SU, FALSE),
    Move(5 * MM + MM \div 20, MM \div 20, 0, 0, 60 * SU, FALSE),
    Move(2 * MM, 1 * MM, 0, 0, 60 * SU, FALSE) }

LedgerInit == Init /\ BLOCK_BUFFER_SIZE = 8 /\ stepper_isr_enabled = TRUE

\* G92 and moves, the stepper interrupt not yet serving the queue
LedgerNext ==
  \/ \E p \in SetPositions : set_position_mm(p)
  \/ \E m \in LedgerMoves : BufferLine(m)
  \/ WaitDone
  \/ Build
  \/ Publish
  \/ ReverseStart
  \/ ReverseLoop
  \/ ReverseStore
  \/ ForwardStart
  \/ ForwardLoop
  \/ TrapezoidsStart
  \/ TrapezoidLoop
  \/ TrapezoidStore
  \/ WakeUp

LedgerSpec == LedgerInit /\ [][LedgerNext]_vars

\* C39: for X, Y and Z, position[i] is the value the last set_position_mm
\* left plus the signed steps (steps[i], negative when direction_bits has
\* the axis) of every block published since; a dropped move changes
\* neither, and the block about to be published carries every step between
\* position[] and its target.
C39_PositionIsSetPlusPublishedSteps ==
  /\ \A i \in {X_AXIS, Y_AXIS, Z_AXIS} : position[i] = set_steps[i] + published_steps[i]
  /\ pc = "publish" =>
       \A i \in {X_AXIS, Y_AXIS, Z_AXIS} :
         position[i] + SignedSteps(block_buffer[block_buffer_head])[i] = TargetSteps(mv)[i]

\* after a position with fractions of a step was set and a block with a
\* backward Y step was published, a move of 4 steps on X and Y was dropped
C39_Witness ==
  /\ pc = "idle"
  /\ set_steps = <<1, 1, 0, 1>>
  /\ published_steps[X_AXIS] = 399
  /\ published_steps[Y_AXIS] = -1
  /\ position[X_AXIS] = 400
  /\ position[Y_AXIS] = 0
  /\ block_buffer_head \notin built
  /\ block_buffer[block_buffer_head].steps = <<4, 4, 0, 0>>


\* a manage_heater that recomputes the hot end's duty without a fresh pair
ManageHeaterSkip_recompute ==
  /\ pc = "idle"
  /\ ~board_reset
  /\ ~ready_
  /\ skipped' = ~skipped
  /\ soft_pwm_amount' \in hotend_duties(current_temperature, target_temperature)
  /\ UNCHANGED <<serial_vars, runaway_vars, set_call, pwm_vars, ledger_vars, motion_vars,
                 machine_vars, adc_vars, watch_vars, target_temperature,
                 target_temperature_bed, current_temperature, current_temperature_bed,
                 is_bed_heating, heater_0, heater_bed, temperature_raw, ms, wdt>>

\* manage_heater (thermal.cpp:254-259) called while is_ready() is false:
\* updateTemperaturesFromRawValues skips its body (365) and returns false
\* (429), and manage_heater returns false (258)
ManageHeaterSkip ==
  /\ pc = "idle"
  /\ ~board_reset
  /\ ~ready_
  /\ skipped' = ~skipped
  /\ UNCHANGED <<serial_vars, runaway_vars, set_call, pwm_vars, ledger_vars, motion_vars,
                 thermal_vars>>

\* the heater loop, with the calls of manage_heater that find nothing to do
PollNext == HeaterNext \/ ManageHeaterSkip

PollSpec == HeaterInit /\ [][PollNext]_vars

\* C40: a manage_heater call made while no fresh ADC pair is ready changes
\* neither the current temperatures, the duties, the heater outputs, the
\* watch timers nor the ready flag, and the body that recomputes the duties
\* is entered only by a call that found the ready flag set and consumed
\* the pair.
C40_NoFreshPairNoChange ==
  [][/\ skipped' # skipped =>
          /\ ~ready_
          /\ pc' = pc
          /\ UNCHANGED <<current_temperature, current_temperature_bed, soft_pwm_amount,
                         is_bed_heating, heater_0, heater_bed, watch_vars, ready_,
                         temperature_raw, wdt>>
     /\ (pc = "idle" /\ pc' = "critsec") => ready_
     /\ (pc # "update" /\ pc' = "update") => (pc = "critsec" /\ ~ready_')
     /\ (pc = "idle" /\ pc' = "idle" /\ ~ready_ /\ UNCHANGED <<target_temperature, target_temperature_bed, killed>>) =>
          UNCHANGED <<soft_pwm_amount, is_bed_heating>>]_vars

\* a call that found no fresh pair, made with the hot end heating after an
\* earlier call had consumed one
C40_Witness ==
  /\ skipped
  /\ pc = "idle"
  /\ ~ready_
  /\ soft_pwm_amount > 0
  /\ target_temperature > 0

============================================================================
